---- MODULE Spec2Model ----
(***************************************************************************)
(* A model of aria's process supervision engine:                           *)
(*   - the stream-json decoder of ClaudeProcess.ReadResponses,             *)
(*   - the ProcessManager registry (GetOrCreate, Send with retry, Reset),  *)
(*   - the permission bridge (callback handler, button callback, helper).  *)
(* Each part has its own specification over the shared variables; the      *)
(* variables of the other parts stay at their initial values.              *)
(***************************************************************************)
EXTENDS Integers, Sequences, FiniteSets, TLC

(***************************************************************************)
(* Bounds of the model.                                                    *)
(***************************************************************************)
\* lines of subprocess output read by one ReadResponses call
MaxLines == 3
\* subprocesses the registry may spawn in one run
MaxProcs == 2
\* permission requests of one chat, one after the other
MaxReqs == 2
MaxSets == 2
\* pieces of a message given to Send
MaxMsgLen == 4
\* updates the Bot receives
MaxUpdates == 3
\* calls of SessionID and SessionIDFromString
MaxIds == 2
\* seconds a permission request may spend on its way before only deadlines count
MaxLatency == 3
\* AskUserQuestion tool uses
MaxAsks == 2
\* records in a sessions file given to Load
MaxRecords == 2

VARIABLES
    \* ---- decoder: one ClaudeProcess and the ReadResponses call on it ----
    rr,             \* "idle" | "reading" | "nil" | "err": state of the call
    rrErr,          \* the error a failed call returned ("" when none)
    lastMessage,    \* ReadResponses local: the buffered text (its source position)
    hasMessage,     \* ReadResponses local
    pendingTools,   \* ReadResponses local: the set of pending tool ids
    slashCommands,  \* ClaudeProcess.slashCommands (a nil slice until captured)
    sessionID,      \* ClaudeProcess.sessionID
    cbs,            \* history: the callbacks invoked by the current call, in order
    nLines,         \* history: lines consumed by the current call
    added,          \* history: how often each tool id was put in pendingTools
    textsSeen,      \* history: non-empty text blocks read by the current call
    \* ---- registry: the ProcessManager, its subprocesses and its callers ----
    processes,      \* ProcessManager.processes: chat id -> process (NoProc: no entry)
    procs,          \* every ClaudeProcess ever created, by id
    mu,             \* ProcessManager.mu: the thread holding it exclusively, or Free
    persist,        \* SessionPersistence.sessions: chat id -> session id (NoSid: no entry)
    cwds,           \* SessionPersistence.sessions: chat id -> working directory
    th,             \* the goroutines calling the registry: operation, position, locals
    \* ---- permission bridge: helper, supervisor handler, button callbacks ----
    conf,           \* which handlers are set (Server.permissionHandler, CallbackServer.handler)
    permission,     \* trackers.Manager: chat id -> the request whose pending is stored
    rq,             \* every permission request: helper side, handler side, channel
    press,          \* every button press and the callback handling it
    \* ---- session store: SessionPersistence, its file, a second store ----
    mappings,       \* SessionPersistence.sessions: chat id -> SessionMapping
    disk,           \* the sessions file: Absent, or the records in it
    savers,         \* every Save call (the one the caller makes, those Set starts)
    reloaded,       \* the sessions of a fresh store after Load
    now,            \* time.Now
    caller,         \* the program using the store: "setting" | "saved" | "loaded"
    rw,             \* SessionPersistence.mu: a mutation waiting in Lock, a reader in RLock
    \* ---- ClaudeProcess.Send: one message and the subprocess's stdin ----
    userMsg,        \* the message given to Send
    stdinOpen,      \* p.stdin has not been closed
    stdinLines,     \* what was written to p.stdin, line by line
    sendRet,        \* "" (Send not called) | "nil" | "err"
    \* ---- telegram.Bot: the updates it receives and what it does with them ----
    bot,            \* Bot.allowlist, and whether Bot.handler / callbackHandler are set
    updates,        \* every update handled so far, with what the Bot did for it
    \* ---- SessionID / SessionIDFromString ----
    sum256,         \* sha256.Sum256, its first 16 bytes: hash input -> bytes
    issued,         \* every call made so far: function, argument, result
    \* ---- permission bridge configuration: BridgeManager, the helpers' clients ----
    callbackPort,   \* BridgeManager.callbackPort: the port of the supervisor's callback server
    bridges,        \* BridgeManager.bridges: chat id -> config path (NoPath: no entry)
    cfgFiles,       \* the temp directory: config path -> the env block of the file
    clients,        \* the helper of each chat's subprocess: its CallbackClient
    received,       \* history: the requests the supervisor's handler was called with
    pendingFrom,    \* trackers.Manager: chat id -> the helper whose request is pending there
    returned,       \* history: every (chat id, path) GetConfigPath returned
    \* ---- the timeouts of a permission request ----
    clock,          \* seconds since the supervisor started
    tq,             \* one permission request nobody answers: helper, handler, their deadlines
    \* ---- AskUserQuestion: the pending question and its keyboards ----
    question,       \* trackers.Manager: the pending question of the chat (NoQuestion: nil)
    shown,          \* history: the question keyboards sent to the chat (tool id, question index)
    combined,       \* history: the combined answers sent to the agent, with their tool id
    asks,           \* history: AskUserQuestion tool uses handled so far
    \* ---- SessionPersistence.Load on a store in use ----
    lastLoad        \* history: the last Load call on the store: the file it found, the map before and after, its return

decVars == <<rr, rrErr, lastMessage, hasMessage, pendingTools, slashCommands,
             sessionID, cbs, nLines, added, textsSeen>>

regVars == <<processes, procs, mu, persist, cwds, th>>

permVars == <<conf, permission, rq, press>>

stoVars == <<mappings, disk, savers, reloaded, now, caller, rw>>

pipeVars == <<userMsg, stdinOpen, stdinLines, sendRet>>

botVars == <<bot, updates>>

idVars == <<sum256, issued>>

brVars == <<callbackPort, bridges, cfgFiles, clients, received, pendingFrom, returned>>

tmVars == <<clock, tq>>

askVars == <<question, shown, combined, asks>>

ldVars == <<lastLoad>>

vars == <<decVars, regVars, permVars, stoVars, pipeVars, botVars, idVars, brVars, tmVars, askVars, ldVars>>

\* what the actions of one part leave alone
notDec == <<regVars, permVars, stoVars, pipeVars, botVars, idVars, brVars, tmVars, askVars, ldVars>>
notReg == <<decVars, permVars, stoVars, pipeVars, botVars, idVars, brVars, tmVars, askVars, ldVars>>
notPerm == <<decVars, regVars, stoVars, pipeVars, botVars, idVars, brVars, tmVars, askVars, ldVars>>
notSto == <<decVars, regVars, permVars, pipeVars, botVars, idVars, brVars, tmVars, askVars, ldVars>>
notPipe == <<decVars, regVars, permVars, stoVars, botVars, idVars, brVars, tmVars, askVars, ldVars>>
notBot == <<decVars, regVars, permVars, stoVars, pipeVars, idVars, brVars, tmVars, askVars, ldVars>>
notId == <<decVars, regVars, permVars, stoVars, pipeVars, botVars, brVars, tmVars, askVars, ldVars>>
notBr == <<decVars, regVars, permVars, stoVars, pipeVars, botVars, idVars, tmVars, askVars, ldVars>>
notTm == <<decVars, regVars, permVars, stoVars, pipeVars, botVars, idVars, brVars, askVars, ldVars>>
notAsk == <<decVars, regVars, permVars, stoVars, pipeVars, botVars, idVars, brVars, tmVars, ldVars>>
notLd == <<decVars, regVars, permVars, stoVars, pipeVars, botVars, idVars, brVars, tmVars, askVars>>

(***************************************************************************)
(* The subprocess output protocol: one line is one record.  A field a line *)
(* does not carry is "" / <<>> / FALSE, as Go's json.Unmarshal leaves it.  *)
(***************************************************************************)
\* a nil slice, as against an empty one
NilCmds == [isNil |-> TRUE, cmds |-> <<>>]
Cmds(c) == [isNil |-> FALSE, cmds |-> c]
ToolIds == {"a", "b"}
NoSrc == <<0, 0>>

Block(t, txt, i, n, ht, td, e) ==
    [type |-> t, text |-> txt, id |-> i, name |-> n, hasTodos |-> ht, todos |-> td,
     is_error |-> e]
TextBlock(txt) == Block("text", txt, "", "", FALSE, <<>>, FALSE)
ToolUseBlock(i, n) == Block("tool_use", "", i, n, FALSE, <<>>, FALSE)
TodoItem(c, s, a) == [isMap |-> TRUE, content |-> c, status |-> s, activeForm |-> a]
NotAMapItem == [isMap |-> FALSE, content |-> "", status |-> "", activeForm |-> ""]
TodoWriteBlock(i, td) == Block("tool_use", "", i, "TodoWrite", TRUE, td, FALSE)
ToolResultBlock(i, txt, e) == Block("tool_result", txt, i, "", FALSE, <<>>, e)

Line(t, st, sid, sc, c, tuid, e, tur, pd) ==
    [type |-> t, subtype |-> st, session_id |-> sid, slash_commands |-> sc,
     content |-> c, tool_use_id |-> tuid, is_error |-> e,
     tool_use_result |-> tur, permission_denials |-> pd]
NonJSONLine == Line("nonjson", "", "", NilCmds, <<>>, "", FALSE, "", <<>>)
OtherLine(tuid, e) == Line("other", "", "", NilCmds, <<>>, tuid, e, "", <<>>)
SystemLine(st, sid, sc) == Line("system", st, sid, sc, <<>>, "", FALSE, "", <<>>)
AssistantLine(c) == Line("assistant", "", "", NilCmds, c, "", FALSE, "", <<>>)
UserLine(c, tur) == Line("user", "", "", NilCmds, c, "", FALSE, tur, <<>>)
ResultLine(pd) == Line("result", "", "", NilCmds, <<>>, "", FALSE, "", pd)
InputRequestLine(tuid) == Line("input_request", "", "", NilCmds, <<>>, tuid, FALSE, "", <<>>)

SomeTodos == <<TodoItem("x", "completed", "X"), NotAMapItem, TodoItem("y", "in_progress", "Y")>>

\* the content lists of the assistant lines the subprocess may send
AssistantContents ==
    { <<>>,
      <<TextBlock("t")>>,
      <<TextBlock("")>>,
      <<ToolUseBlock("a", "Bash")>>,
      <<ToolUseBlock("b", "Bash")>>,
      <<ToolUseBlock("b", "")>>,
      <<TodoWriteBlock("a", SomeTodos)>>,
      <<TextBlock("t"), TextBlock("t")>>,
      <<TextBlock("t"), ToolUseBlock("a", "Bash")>>,
      <<ToolUseBlock("a", "Bash"), TextBlock("t")>>,
      <<ToolUseBlock("a", "Bash"), ToolUseBlock("b", "Bash")>>,
      <<ToolUseBlock("a", "Bash"), TextBlock("t"), ToolUseBlock("b", "Bash")>> }

\* the lines the subprocess may send
Lines ==
    { NonJSONLine, OtherLine("", FALSE), OtherLine("a", FALSE), OtherLine("a", TRUE),
      SystemLine("init", "s1", Cmds(<<"c">>)), SystemLine("init", "s2", NilCmds),
      SystemLine("status", "s3", Cmds(<<"d">>)),
      UserLine(<<ToolResultBlock("a", "e", TRUE)>>, "E"),
      UserLine(<<ToolResultBlock("b", "", TRUE)>>, "E"),
      UserLine(<<ToolResultBlock("a", "ok", FALSE)>>, ""),
      UserLine(<<ToolResultBlock("a", "", TRUE)>>, ""),
      ResultLine(<<>>), ResultLine(<<"Bash">>),
      InputRequestLine("a"), InputRequestLine("b") }
    \cup { AssistantLine(c) : c \in AssistantContents }

\* the orders in which Go may range over the pendingTools map
Orders == { o \in [1..Cardinality(ToolIds) -> ToolIds] :
              \A i, j \in DOMAIN o : i # j => o[i] # o[j] }

(***************************************************************************)
(* ReadResponses: the decoder.  d is the state of the running call: the    *)
(* locals, the two process fields the loop writes, and the callbacks made. *)
(***************************************************************************)
Cb(c, i, s, f, v) == [cb |-> c, id |-> i, src |-> s, flag |-> f, val |-> v]

Emit(d, c) == [d EXCEPT !.out = Append(@, c)]

\* flushBuffer that forgets to reset hasMessage
flushBufferKeepsFlag(d) ==
    IF d.hasMessage
    THEN Emit(d, Cb("OnMessage", "", d.lastMessage, FALSE, <<>>))
    ELSE d

flushBuffer(d) ==
    IF d.hasMessage
    THEN [Emit(d, Cb("OnMessage", "", d.lastMessage, FALSE, <<>>))
            EXCEPT !.hasMessage = FALSE, !.lastMessage = NoSrc]
    ELSE d

completeTool(d, toolID, isError) ==
    IF toolID \in d.pendingTools
    THEN [Emit(d, Cb("OnToolResult", toolID, NoSrc, isError, <<>>))
            EXCEPT !.pendingTools = @ \ {toolID}]
    ELSE d

RECURSIVE EmitResults(_, _, _, _)
EmitResults(d, ord, i, ids) ==
    IF i > Len(ord) THEN d
    ELSE EmitResults(IF ord[i] \in ids
                     THEN Emit(d, Cb("OnToolResult", ord[i], NoSrc, FALSE, <<>>))
                     ELSE d,
                     ord, i + 1, ids)

\* completeAllPending that forgets to reset the pending set
completeAllPendingKeepsSet(d, ord) == EmitResults(d, ord, 1, d.pendingTools)

completeAllPending(d, ord) ==
    [EmitResults(d, ord, 1, d.pendingTools) EXCEPT !.pendingTools = {}]

\* a decoding that keeps an entry for every item of the list, a map or not
DecodeTodosAll(todos) ==
    [i \in 1..Len(todos) |->
        [Content |-> todos[i].content, Status |-> todos[i].status,
         ActiveForm |-> todos[i].activeForm]]

\* the Todo values decoded from a TodoWrite input list (items that are no maps are skipped)
DecodeTodos(todos) ==
    LET maps == SelectSeq(todos, LAMBDA t : t.isMap)
    IN  [i \in 1..Len(maps) |->
            [Content |-> maps[i].content, Status |-> maps[i].status,
             ActiveForm |-> maps[i].activeForm]]

\* the text blocks of an assistant line, in order: "for _, text := range textBlocks"
RECURSIVE ProcessTexts(_, _, _, _, _)
ProcessTexts(d, content, n, i, ord) ==
    IF i > Len(content) THEN d
    ELSE IF content[i].type = "text" /\ content[i].text # ""
         THEN ProcessTexts(
                [flushBuffer(completeAllPending(d, ord))
                    EXCEPT !.lastMessage = <<n, i>>, !.hasMessage = TRUE,
                           !.textsSeen = @ + 1],
                content, n, i + 1, ord)
         ELSE ProcessTexts(d, content, n, i + 1, ord)

\* ProcessToolUse that does not flush the buffered text before the tool event
ProcessToolUseNoFlush(d, blk, src, ord) ==
    LET d1 == [completeAllPending(d, ord)
                 EXCEPT !.pendingTools = @ \cup {blk.id},
                        !.added[blk.id] = @ + 1]
    IN  Emit(d1, Cb("OnToolUse", blk.id, src, FALSE, <<blk.name>>))

\* one tool_use block: complete, flush, track, TodoWrite, OnToolUse
ProcessToolUse(d, blk, src, ord) ==
    LET d1 == [flushBuffer(completeAllPending(d, ord))
                 EXCEPT !.pendingTools = @ \cup {blk.id},
                        !.added[blk.id] = @ + 1]
        d2 == IF blk.name = "TodoWrite" /\ blk.hasTodos
              THEN Emit(d1, Cb("OnTodoUpdate", blk.id, src, FALSE, DecodeTodos(blk.todos)))
              ELSE d1
    IN  Emit(d2, Cb("OnToolUse", blk.id, src, FALSE, <<blk.name>>))

\* the tool_use blocks of an assistant line, in order: "for _, content := range toolBlocks"
RECURSIVE ProcessTools(_, _, _, _, _)
ProcessTools(d, content, n, i, ord) ==
    IF i > Len(content) THEN d
    ELSE IF content[i].type = "tool_use" /\ content[i].name # ""
         THEN ProcessTools(ProcessToolUse(d, content[i], <<n, i>>, ord),
                           content, n, i + 1, ord)
         ELSE ProcessTools(d, content, n, i + 1, ord)

ProcessAssistant(d, line, n, ord) ==
    ProcessTools(ProcessTexts(d, line.content, n, 1, ord), line.content, n, 1, ord)

\* a user event handled with the event-level text preferred to the block's content
RECURSIVE ProcessUserPrefersTopLevel(_, _, _)
ProcessUserPrefersTopLevel(d, line, i) ==
    IF i > Len(line.content) THEN d
    ELSE LET blk == line.content[i]
             errorMsg == IF line.tool_use_result # ""
                         THEN line.tool_use_result ELSE blk.text
             d1 == completeTool(d, blk.id, TRUE)
             d2 == IF errorMsg # ""
                   THEN Emit(d1, Cb("OnToolError", blk.id, NoSrc, TRUE, <<errorMsg>>))
                   ELSE d1
         IN  ProcessUserPrefersTopLevel(
                 IF blk.type = "tool_result" /\ blk.is_error THEN d2 ELSE d, line, i + 1)

\* a user event: each tool_result block with is_error set
RECURSIVE ProcessUser(_, _, _)
ProcessUser(d, line, i) ==
    IF i > Len(line.content) THEN d
    ELSE LET blk == line.content[i]
             errorMsg == IF blk.text = "" /\ line.tool_use_result # ""
                         THEN line.tool_use_result ELSE blk.text
             d1 == completeTool(d, blk.id, TRUE)
             d2 == IF errorMsg # ""
                   THEN Emit(d1, Cb("OnToolError", blk.id, NoSrc, TRUE, <<errorMsg>>))
                   ELSE d1
         IN  ProcessUser(IF blk.type = "tool_result" /\ blk.is_error THEN d2 ELSE d,
                         line, i + 1)

\* the system/init capture, guarded by p.slashCommands == nil
CaptureInit(d, line) ==
    IF line.type = "system" /\ d.slashCommands.isNil /\ line.subtype = "init"
    THEN [d EXCEPT !.slashCommands = line.slash_commands, !.sessionID = line.session_id]
    ELSE d

\* the generic check: any JSON line with a top-level tool_use_id
GenericToolResult(d, line) ==
    IF line.tool_use_id # "" THEN completeTool(d, line.tool_use_id, line.is_error) ELSE d

\* ProcessResult that delivers the final text before the permission denials
ProcessResultTextFirst(d, line, ord) ==
    LET d1 == completeAllPending(d, ord)
        d2 == IF d1.hasMessage
              THEN Emit(d1, Cb("OnMessage", "", d1.lastMessage, TRUE, <<>>))
              ELSE d1
        d3 == IF Len(line.permission_denials) > 0
              THEN Emit(d2, Cb("OnPermissionDenial", "", NoSrc, FALSE, line.permission_denials))
              ELSE d2
    IN  [d3 EXCEPT !.ret = "nil"]

ProcessResult(d, line, ord) ==
    LET d1 == completeAllPending(d, ord)
        d2 == IF Len(line.permission_denials) > 0
              THEN Emit(d1, Cb("OnPermissionDenial", "", NoSrc, FALSE, line.permission_denials))
              ELSE d1
        d3 == IF d2.hasMessage
              THEN Emit(d2, Cb("OnMessage", "", d2.lastMessage, TRUE, <<>>))
              ELSE d2
    IN  [d3 EXCEPT !.ret = "nil"]

ProcessInputRequest(d, line, ord) ==
    LET others == d.pendingTools \ {line.tool_use_id}
        d1 == [EmitResults(d, ord, 1, others) EXCEPT !.pendingTools = @ \ others]
        d2 == flushBuffer(d1)
    IN  [Emit(d2, Cb("OnInputRequest", line.tool_use_id, NoSrc, FALSE, <<>>))
            EXCEPT !.ret = "nil"]

\* one iteration of the scanner loop on the line just read (the n-th of the call)
ProcessLine(d, line, n, ord) ==
    IF line.type = "nonjson" THEN d
    ELSE LET d1 == CaptureInit(GenericToolResult(d, line), line)
             d2 == IF line.type = "user" THEN ProcessUser(d1, line, 1) ELSE d1
             d3 == IF line.type = "assistant" THEN ProcessAssistant(d2, line, n, ord) ELSE d2
         IN  IF line.type = "result" THEN ProcessResult(d3, line, ord)
             ELSE IF line.type = "input_request" THEN ProcessInputRequest(d3, line, ord)
             ELSE d3

DecoderState ==
    [lastMessage |-> lastMessage, hasMessage |-> hasMessage,
     pendingTools |-> pendingTools, slashCommands |-> slashCommands,
     sessionID |-> sessionID, out |-> cbs, added |-> added,
     textsSeen |-> textsSeen, ret |-> ""]

(***************************************************************************)
(* The decoder's actions.                                                  *)
(***************************************************************************)
DecInit ==
    /\ rr = "idle" /\ rrErr = ""
    /\ lastMessage = NoSrc /\ hasMessage = FALSE /\ pendingTools = {}
    /\ slashCommands = NilCmds /\ sessionID = ""
    /\ cbs = <<>> /\ nLines = 0
    /\ added = [i \in ToolIds |-> 0] /\ textsSeen = 0

\* ReadResponses is called: its locals are fresh
ReadResponsesBegin ==
    /\ UNCHANGED notDec
    /\ rr \in {"idle", "nil"}
    /\ rr' = "reading" /\ rrErr' = ""
    /\ lastMessage' = NoSrc /\ hasMessage' = FALSE /\ pendingTools' = {}
    /\ cbs' = <<>> /\ nLines' = 0
    /\ added' = [i \in ToolIds |-> 0] /\ textsSeen' = 0
    /\ UNCHANGED <<slashCommands, sessionID>>

\* scanner.Scan() returned a line and the context is not cancelled
ReadLine ==
    /\ UNCHANGED notDec
    /\ rr = "reading" /\ nLines < MaxLines
    /\ \E line \in Lines, ord \in Orders :
         LET d == ProcessLine(DecoderState, line, nLines + 1, ord)
         IN  /\ lastMessage' = d.lastMessage
             /\ hasMessage' = d.hasMessage
             /\ pendingTools' = d.pendingTools
             /\ slashCommands' = d.slashCommands
             /\ sessionID' = d.sessionID
             /\ cbs' = d.out
             /\ added' = d.added
             /\ textsSeen' = d.textsSeen
             /\ rr' = IF d.ret = "nil" THEN "nil" ELSE "reading"
    /\ nLines' = nLines + 1
    /\ UNCHANGED rrErr

\* scanner.Scan() returned a line and ctx.Done() is closed: the line is dropped
ReadCancelled ==
    /\ UNCHANGED notDec
    /\ rr = "reading" /\ nLines < MaxLines
    /\ rr' = "err" /\ rrErr' = "context canceled"
    /\ nLines' = nLines + 1
    /\ UNCHANGED <<lastMessage, hasMessage, pendingTools, slashCommands, sessionID,
                   cbs, added, textsSeen>>

\* scanner.Scan() returned false: the stream ended, or the scanner failed
ReadEnd ==
    /\ UNCHANGED notDec
    /\ rr = "reading"
    /\ rr' = "err"
    /\ \E e \in {"reading claude output", "session not found, needs fresh start",
                 "claude process exited unexpectedly",
                 "claude output ended without result event"} : rrErr' = e
    /\ UNCHANGED <<lastMessage, hasMessage, pendingTools, slashCommands, sessionID,
                   cbs, nLines, added, textsSeen>>

DecNext == ReadResponsesBegin \/ ReadLine \/ ReadCancelled \/ ReadEnd

(***************************************************************************)
(* The registry: ProcessManager over its subprocesses.                     *)
(***************************************************************************)
Keys == {"k1"}
Threads == {"t1", "t2"}
ProcIds == 1..MaxProcs
NoProc == 0
Free == "free"

\* session ids: none (the empty string); two known before this run (loaded from
\* the sessions file or picked from session discovery), of which the subprocess
\* still has the first and no longer has the second; one per new conversation
NoSid == <<"", 0>>
ExtSid == <<"x", 0>>
StaleSid == <<"stale", 0>>
OldSids == {ExtSid, StaleSid}
FreshSid(p) == <<"p", p>>

\* a ClaudeProcess and its subprocess.  st: "none" (not created), "running",
\* "exited" (the subprocess is gone, cmd.Wait has not returned yet), "reaped"
\* (cmd.Wait returned: ProcessState is set, done is closed).
NoCwd == ""
Dirs == {"d1"}
NoProcess ==
    [key |-> "", st |-> "none", resume |-> NoSid, cwd |-> NoCwd,
     sessionID |-> NoSid, sessionNotFound |-> FALSE]
NewProcess(k, resumeSessionID, cwd) ==
    [key |-> k, st |-> "running", resume |-> resumeSessionID, cwd |-> cwd,
     sessionID |-> NoSid, sessionNotFound |-> FALSE]

\* the working directory the store holds for a chat, and its change by SetCwd
GetCwd(k) == cwds[k]
SetCwdPreserveSession(k, cwd) == [cwds EXCEPT ![k] = cwd]
\* persistence.Delete removes the chat's record, working directory included
DeleteCwd(k) == [cwds EXCEPT ![k] = NoCwd]

\* the subprocess of p was started with a resume id it does not have: it says
\* so on stderr and exits
Stale(p) == procs[p].resume = StaleSid

Alive(p) == procs[p].st \in {"running", "exited"}
Running(p) == procs[p].st = "running"
FreeProcIds == { p \in ProcIds : procs[p].st = "none" }
NextProcId == CHOOSE p \in FreeProcIds : \A q \in FreeProcIds : p <= q

IdleThread ==
    [op |-> "", key |-> "", pc |-> "idle", proc |-> NoProc, arg |-> NoSid,
     retriesLeft |-> 0, closing |-> NoProc, ret |-> "", err |-> "",
     \* history of the running operation
     attempts |-> 0, first |-> "", last |-> "", firstProc |-> NoProc,
     staleSeen |-> FALSE, slow |-> FALSE, spawned |-> NoProc,
     \* history of a Reset: the processes that existed when it returned
     before |-> {}]

\* NewProcessManager, with the sessions file as persistence.Load found it
RegStartIn(sessions, dirs) ==
    /\ processes = [k \in Keys |-> NoProc]
    /\ procs = [p \in ProcIds |-> NoProcess]
    /\ mu = Free
    /\ persist = sessions
    /\ cwds = dirs
    /\ th = [t \in Threads |-> IdleThread]

RegStart(sessions) == RegStartIn(sessions, [k \in Keys |-> NoCwd])

\* ... with the working directories of the sessions file
RegLoaded ==
    \E sessions \in [Keys -> {NoSid} \cup OldSids], dirs \in [Keys -> {NoCwd} \cup Dirs] :
        RegStartIn(sessions, dirs)

RegInit == \E sessions \in [Keys -> {NoSid} \cup OldSids] : RegStart(sessions)

\* no sessions file
RegEmpty == RegStart([k \in Keys |-> NoSid])

\* the registry once an earlier GetOrCreate has spawned and registered the
\* subprocess of every key, and the goroutine that called it is gone
RegServing ==
    /\ processes = [k \in Keys |-> 1]
    /\ procs = [p \in ProcIds |-> IF p = 1 THEN NewProcess("k1", NoSid, NoCwd) ELSE NoProcess]
    /\ mu = Free
    /\ persist = [k \in Keys |-> NoSid]
    /\ cwds = [k \in Keys |-> NoCwd]
    /\ th = [t \in Threads |-> IdleThread]

Ops == {"send", "goc", "gocws", "reset", "setcwd", "shutdown"}

\* a caller starts an operation of the registry (each goroutine makes one call)
StartOp(t, op, k, sid) ==
    /\ UNCHANGED <<notReg, cwds>>
    /\ th[t].pc = "idle"
    /\ th' = [th EXCEPT ![t] =
                [IdleThread EXCEPT
                   !.op = op, !.key = k, !.arg = sid,
                   !.retriesLeft = IF op = "send" THEN 1 ELSE 0,
                   !.attempts = IF op = "send" THEN 1 ELSE 0,
                   !.pc = CASE op \in {"send", "goc"} -> "goc"
                            [] op = "gocws" -> IF sid = NoSid THEN "goc" ELSE "kill"
                            [] op \in {"reset", "setcwd"} -> "kill"
                            [] OTHER -> "shut"]]
    /\ UNCHANGED <<processes, procs, mu, persist>>

Start(t) ==
    \E op \in Ops, k \in Keys, sid \in {NoSid} \cup OldSids :
        /\ sid # NoSid => op = "gocws"
        /\ StartOp(t, op, k, sid)

\* GetOrCreate returned proc p to thread record r: Send goes on, a plain call is done
Got(r, p) ==
    IF r.op = "send"
    THEN [r EXCEPT !.proc = p, !.pc = "send",
                   !.firstProc = IF r.attempts = 1 THEN p ELSE @]
    ELSE [r EXCEPT !.proc = p, !.pc = "done", !.ret = "proc"]

\* Send returned ret to thread record r
Returned(r, ret) ==
    [r EXCEPT !.pc = "done", !.ret = ret, !.proc = NoProc, !.firstProc = NoProc]

\* an attempt of thread record r ended with outcome o
Outcome(r, o) == [r EXCEPT !.last = o, !.first = IF r.attempts = 1 THEN o ELSE @]

\* GetOrCreate: the check under the shared lock
GocFast(t) ==
    /\ UNCHANGED <<notReg, cwds>>
    /\ th[t].pc = "goc" /\ mu = Free
    /\ LET p == processes[th[t].key]
       IN  th' = [th EXCEPT ![t] =
                    IF p # NoProc /\ Alive(p) THEN Got(@, p)
                    ELSE [@ EXCEPT !.pc = "gocLock", !.slow = (th[t].op = "goc")]]
    /\ UNCHANGED <<processes, procs, mu, persist>>

\* GetOrCreate without the second check
NoRecheck(p) == FALSE

\* GetOrCreate: the second check, under the exclusive lock
Recheck(p) == p # NoProc /\ Alive(p)

\* GetOrCreate: the exclusive section (m.mu.Lock() ... return)
GocLocked(t) ==
    /\ UNCHANGED <<notReg, cwds>>
    /\ th[t].pc = "gocLock" /\ mu = Free
    /\ LET k == th[t].key
           p == processes[k]
       IN  IF Recheck(p)
           THEN /\ th' = [th EXCEPT ![t] = Got(@, p)]
                /\ UNCHANGED <<processes, procs>>
           ELSE \/ /\ FreeProcIds # {}
                   /\ procs' = [procs EXCEPT ![NextProcId] = NewProcess(k, persist[k], GetCwd(k))]
                   /\ processes' = [processes EXCEPT ![k] = NextProcId]
                   /\ th' = [th EXCEPT ![t] = Got([@ EXCEPT !.spawned = IF th[t].op = "goc"
                                                                      THEN NextProcId ELSE @],
                                                  NextProcId)]
                \/ \* NewProcess fails
                   /\ UNCHANGED procs
                   /\ processes' = [processes EXCEPT ![k] = NoProc]
                   /\ th' = [th EXCEPT ![t] =
                               IF @.op = "send" THEN Returned(Outcome(@, "spawnfail"), "err")
                               ELSE [@ EXCEPT !.pc = "done", !.ret = "err"]]
    /\ UNCHANGED <<mu, persist>>

\* Close holds the process's own lock while it waits for the subprocess
BeingClosed(p) == \E u \in Threads : th[u].closing = p

\* ClaudeProcess.Send: one line written to stdin, or a write error
ProcSend(t) ==
    /\ UNCHANGED <<notReg, cwds>>
    /\ th[t].pc = "send"
    /\ ~BeingClosed(th[t].proc)
    /\ LET p == th[t].proc
       IN  th' = [th EXCEPT ![t] =
                    IF Running(p)
                    THEN [@ EXCEPT !.pc = "read"]
                    ELSE [Outcome(@, "sendfail") EXCEPT
                            !.pc = "evictS",
                            !.staleSeen = procs[p].sessionNotFound]]
    /\ UNCHANGED <<processes, procs, mu, persist>>

\* sendWithRetry that always retries
RetryAlways(retriesLeft) == TRUE

\* sendWithRetry: "if retriesLeft > 0"
RetryAllowed(retriesLeft) == retriesLeft > 0

\* the end of a failed attempt of thread record r: retry, or return the error
RetryOrFail(r) ==
    IF RetryAllowed(r.retriesLeft)
    THEN [r EXCEPT !.pc = "goc", !.retriesLeft = @ - 1, !.attempts = @ + 1,
                   !.proc = NoProc]
    ELSE Returned(r, "err")

\* sendWithRetry after a failed Send: the map entry is deleted, then retry or fail
EvictAfterSend(t) ==
    /\ UNCHANGED <<notReg, cwds>>
    /\ th[t].pc = "evictS" /\ mu = Free
    /\ processes' = [processes EXCEPT ![th[t].key] = NoProc]
    /\ th' = [th EXCEPT ![t] = RetryOrFail(@)]
    /\ UNCHANGED <<procs, mu, persist>>

\* ReadResponses returns nil: the subprocess answered (it is running and knows
\* its session); the first init event sets the session id: the resumed one, or
\* a new one
ReadOK(t) ==
    /\ UNCHANGED <<notReg, cwds>>
    /\ th[t].pc = "read"
    /\ LET p == th[t].proc
       IN  /\ Running(p) /\ ~Stale(p)
           /\ procs' = [procs EXCEPT ![p].sessionID =
                           IF @ # NoSid THEN @
                           ELSE IF procs[p].resume # NoSid THEN procs[p].resume
                           ELSE FreshSid(p)]
    /\ th' = [th EXCEPT ![t] = [Outcome(@, "ok") EXCEPT !.pc = "persist"]]
    /\ UNCHANGED <<processes, mu, persist>>

\* the errors of ReadResponses when the output ended without a result event
EndErrors ==
    {"session not found, needs fresh start", "claude process exited unexpectedly",
     "claude output ended without result event"}

\* ReadResponses, lines 548-563, when the scanner met the end of the output of
\* process p: the select on p.done, then SessionNotFound
EndError(p) ==
    IF procs[p].st = "reaped"
    THEN IF procs[p].sessionNotFound
         THEN "session not found, needs fresh start"
         ELSE "claude process exited unexpectedly"
    ELSE "claude output ended without result event"

\* the errors ReadResponses can return on process p now: the context is
\* cancelled, the scanner failed, or the output ended (the subprocess exited)
ReadErrors(p) ==
    {"context canceled", "reading claude output"}
       \cup (IF Running(p) THEN {} ELSE {EndError(p)})

\* ReadResponses returns an error
ReadFail(t) ==
    /\ UNCHANGED <<notReg, cwds>>
    /\ th[t].pc = "read"
    /\ \E e \in ReadErrors(th[t].proc) :
          th' = [th EXCEPT ![t] =
                   [Outcome(@, "readfail") EXCEPT
                      !.pc = "evictR", !.err = e,
                      !.staleSeen = procs[th[t].proc].sessionNotFound]]
    /\ UNCHANGED <<processes, procs, mu, persist>>

\* sendWithRetry after a failed ReadResponses: the map entry is deleted
EvictAfterRead(t) ==
    /\ UNCHANGED <<notReg, cwds>>
    /\ th[t].pc = "evictR" /\ mu = Free
    /\ processes' = [processes EXCEPT ![th[t].key] = NoProc]
    /\ th' = [th EXCEPT ![t].pc = "purge", ![t].err = ""]
    /\ UNCHANGED <<procs, mu, persist>>

\* ... then a stale session is cleared from persistence, then retry or fail
PurgeStale(t) ==
    /\ UNCHANGED notReg
    /\ th[t].pc = "purge"
    /\ persist' = IF procs[th[t].proc].sessionNotFound
                  THEN [persist EXCEPT ![th[t].key] = NoSid] ELSE persist
    /\ cwds' = IF procs[th[t].proc].sessionNotFound
               THEN DeleteCwd(th[t].key) ELSE cwds
    /\ th' = [th EXCEPT ![t] = RetryOrFail(@)]
    /\ UNCHANGED <<processes, procs, mu>>

\* sendWithRetry that returns nil without persisting
PersistNothing(t) ==
    /\ UNCHANGED <<notReg, cwds>>
    /\ th[t].pc = "persist"
    /\ th' = [th EXCEPT ![t] = Returned(@, "nil")]
    /\ UNCHANGED <<processes, procs, mu, persist>>

\* sendWithRetry after a successful exchange: the session id is persisted
PersistSession(t) ==
    /\ UNCHANGED <<notReg, cwds>>
    /\ th[t].pc = "persist"
    /\ persist' = IF procs[th[t].proc].sessionID # NoSid
                  THEN [persist EXCEPT ![th[t].key] = procs[th[t].proc].sessionID]
                  ELSE persist
    /\ th' = [th EXCEPT ![t] = Returned(@, "nil")]
    /\ UNCHANGED <<processes, procs, mu>>

\* GetOrCreateWithSession without its persistence.Set
KeepMapping(k, sid) == persist

\* GetOrCreateWithSession, lines 157-159: persistence.Set(chatID, sessionID)
SetMapping(k, sid) == [persist EXCEPT ![k] = sid]

\* what Reset, SetCwd and GetOrCreateWithSession do once the key has no process:
\* Reset deletes the mapping, GetOrCreateWithSession spawns and persists
KillTail(t, pr) ==
    LET k == th[t].key
    IN  CASE th[t].op = "reset" ->
               /\ persist' = [persist EXCEPT ![k] = NoSid]
               /\ cwds' = DeleteCwd(k)
               /\ procs' = pr
               /\ processes' = [processes EXCEPT ![k] = NoProc]
               /\ th' = [th EXCEPT ![t] =
                           [@ EXCEPT !.pc = "done", !.closing = NoProc,
                                     !.before = { p \in ProcIds : pr[p].st # "none" }]]
          [] th[t].op = "setcwd" ->
               /\ procs' = pr
               /\ processes' = [processes EXCEPT ![k] = NoProc]
               /\ th' = [th EXCEPT ![t] = [@ EXCEPT !.pc = "done", !.closing = NoProc]]
               /\ \E cwd \in Dirs : cwds' = SetCwdPreserveSession(k, cwd)
               /\ UNCHANGED persist
          [] OTHER ->
               \/ /\ FreeProcIds # {}
                  /\ procs' = [pr EXCEPT ![NextProcId] = NewProcess(k, th[t].arg, GetCwd(k))]
                  /\ processes' = [processes EXCEPT ![k] = NextProcId]
                  /\ persist' = SetMapping(k, th[t].arg)
                  /\ th' = [th EXCEPT ![t] =
                              [@ EXCEPT !.pc = "done", !.closing = NoProc, !.ret = "proc",
                                        !.proc = NextProcId, !.spawned = NextProcId]]
                  /\ UNCHANGED cwds
               \/ /\ procs' = pr
                  /\ processes' = [processes EXCEPT ![k] = NoProc]
                  /\ th' = [th EXCEPT ![t] =
                              [@ EXCEPT !.pc = "done", !.closing = NoProc, !.ret = "err"]]
                  /\ UNCHANGED <<persist, cwds>>

\* Reset, SetCwd, GetOrCreateWithSession: the lock is taken; a registered
\* process has its stdin closed and is waited for (Close), under the lock
KillBegin(t) ==
    /\ UNCHANGED notReg
    /\ th[t].pc = "kill" /\ mu = Free
    /\ LET p == processes[th[t].key]
       IN  IF p = NoProc
           THEN KillTail(t, procs) /\ UNCHANGED mu
           ELSE /\ mu' = t
                /\ th' = [th EXCEPT ![t] = [@ EXCEPT !.pc = "killWait", !.closing = p]]
                /\ UNCHANGED <<processes, procs, persist, cwds>>

\* ... cmd.Wait returned: the entry is deleted, the rest follows, the lock is released
KillFinish(t) ==
    /\ UNCHANGED notReg
    /\ th[t].pc = "killWait" /\ ~Running(th[t].closing)
    /\ KillTail(t, [procs EXCEPT ![th[t].closing].st = "reaped"])
    /\ mu' = Free

\* Shutdown: the lock is taken
ShutBegin(t) ==
    /\ UNCHANGED <<notReg, cwds>>
    /\ th[t].pc = "shut" /\ mu = Free
    /\ mu' = t
    /\ th' = [th EXCEPT ![t].pc = "shutLoop"]
    /\ UNCHANGED <<processes, procs, persist>>

\* Shutdown: the next process of the map is closed, or the map is empty
ShutLoop(t) ==
    /\ UNCHANGED <<notReg, cwds>>
    /\ th[t].pc = "shutLoop"
    /\ IF \A k \in Keys : processes[k] = NoProc
       THEN /\ mu' = Free
            /\ th' = [th EXCEPT ![t].pc = "done"]
            /\ UNCHANGED <<processes, procs>>
       ELSE \E k \in Keys :
               /\ processes[k] # NoProc
               /\ th' = [th EXCEPT ![t] = [@ EXCEPT !.pc = "shutWait", !.key = k,
                                                    !.closing = processes[k]]]
               /\ UNCHANGED <<processes, procs, mu>>
    /\ UNCHANGED persist

\* Shutdown: cmd.Wait returned for the process being closed
ShutWait(t) ==
    /\ UNCHANGED <<notReg, cwds>>
    /\ th[t].pc = "shutWait" /\ ~Running(th[t].closing)
    /\ procs' = [procs EXCEPT ![th[t].closing].st = "reaped"]
    /\ processes' = [processes EXCEPT ![th[t].key] = NoProc]
    /\ th' = [th EXCEPT ![t] = [@ EXCEPT !.pc = "shutLoop", !.closing = NoProc]]
    /\ UNCHANGED <<mu, persist>>

\* the subprocess exits: it crashed, its stdin was closed, or its resume id is unknown
ProcExit(p) ==
    /\ UNCHANGED <<notReg, cwds>>
    /\ Running(p)
    /\ procs' = [procs EXCEPT ![p].st = "exited"]
    /\ UNCHANGED <<processes, mu, persist, th>>

\* NewProcess's second goroutine: cmd.Wait returns, done is closed
ProcReap(p) ==
    /\ UNCHANGED <<notReg, cwds>>
    /\ procs[p].st = "exited"
    /\ procs' = [procs EXCEPT ![p].st = "reaped"]
    /\ UNCHANGED <<processes, mu, persist, th>>

\* NewProcess's first goroutine: the stderr line of an unknown resume id is seen
StderrWatcher(p) ==
    /\ UNCHANGED <<notReg, cwds>>
    /\ procs[p].st # "none" /\ Stale(p) /\ ~procs[p].sessionNotFound
    /\ procs' = [procs EXCEPT ![p].sessionNotFound = TRUE]
    /\ UNCHANGED <<processes, mu, persist, th>>

ProcNext == \E p \in ProcIds : ProcExit(p) \/ ProcReap(p) \/ StderrWatcher(p)

RegNext ==
    \/ \E t \in Threads :
          \/ Start(t)
          \/ GocFast(t) \/ GocLocked(t)
          \/ ProcSend(t) \/ EvictAfterSend(t)
          \/ ReadOK(t) \/ ReadFail(t) \/ EvictAfterRead(t) \/ PurgeStale(t)
          \/ PersistSession(t)
          \/ KillBegin(t) \/ KillFinish(t)
          \/ ShutBegin(t) \/ ShutLoop(t) \/ ShutWait(t)
    \/ ProcNext

\* concurrent GetOrCreate calls alone, and the subprocesses
GocNext ==
    \/ \E t \in Threads :
          \/ \E k \in Keys : StartOp(t, "goc", k, NoSid)
          \/ GocFast(t) \/ GocLocked(t)
    \/ \E p \in ProcIds : ProcExit(p) \/ ProcReap(p)

\* concurrent Send calls alone, and the subprocesses
SendNext ==
    \/ \E t \in Threads :
          \/ \E k \in Keys : StartOp(t, "send", k, NoSid)
          \/ GocFast(t) \/ GocLocked(t)
          \/ ProcSend(t) \/ EvictAfterSend(t)
          \/ ReadOK(t) \/ ReadFail(t) \/ EvictAfterRead(t) \/ PurgeStale(t)
          \/ PersistSession(t)
    \/ ProcNext

\* lookups and the operations that close a subprocess, and the subprocesses
LockNext ==
    \/ \E t \in Threads :
          \/ \E op \in Ops \ {"send"}, k \in Keys, sid \in {NoSid, ExtSid} :
                /\ sid # NoSid <=> op = "gocws"
                /\ StartOp(t, op, k, sid)
          \/ GocFast(t) \/ GocLocked(t)
          \/ KillBegin(t) \/ KillFinish(t)
          \/ ShutBegin(t) \/ ShutLoop(t) \/ ShutWait(t)
    \/ \E p \in ProcIds : ProcExit(p) \/ ProcReap(p)

(***************************************************************************)
(* One Send on a key without a mapping, its ReadResponses being the        *)
(* decoder: the decoder runs while the caller is in ReadResponses, and the *)
(* session id the registry persists is the one the decoder captured.       *)
(***************************************************************************)
Sender == "t1"

\* p.sessionID, a string, as a session id of the registry
DecodedSid(str) == IF str = "" THEN NoSid ELSE <<str, 0>>

ExStart == \E k \in Keys : StartOp(Sender, "send", k, NoSid)
ExGetOrCreate == GocFast(Sender) \/ GocLocked(Sender)
ExSend == ProcSend(Sender)
ExBegin == th[Sender].pc = "read" /\ rr = "idle" /\ ReadResponsesBegin
ExLine == th[Sender].pc = "read" /\ ReadLine
ExCancelled == th[Sender].pc = "read" /\ ReadCancelled
ExEnd == th[Sender].pc = "read" /\ ReadEnd

\* ReadResponses returned nil to sendWithRetry
ExReadOK ==
    /\ UNCHANGED <<decVars, permVars, stoVars, pipeVars, botVars, idVars, brVars, tmVars, askVars, ldVars>>
    /\ th[Sender].pc = "read" /\ rr = "nil"
    /\ procs' = [procs EXCEPT ![th[Sender].proc].sessionID = DecodedSid(sessionID)]
    /\ th' = [th EXCEPT ![Sender] = [Outcome(@, "ok") EXCEPT !.pc = "persist"]]
    /\ UNCHANGED <<processes, mu, persist, cwds>>

\* ReadResponses returned an error to sendWithRetry
ExReadFail == rr = "err" /\ ReadFail(Sender)

ExPersist == PersistSession(Sender)

ExNext ==
    \/ ExStart \/ ExGetOrCreate \/ ExSend
    \/ ExBegin \/ ExLine \/ ExCancelled \/ ExEnd
    \/ ExReadOK \/ ExReadFail \/ ExPersist

\* concurrent GetOrCreateWithSession and SetCwd calls alone, and the subprocesses
SwitchNext ==
    \/ \E t \in Threads :
          \/ \E k \in Keys, sid \in {NoSid} \cup OldSids : StartOp(t, "gocws", k, sid)
          \/ \E k \in Keys : StartOp(t, "setcwd", k, NoSid)
          \/ GocFast(t) \/ GocLocked(t)
          \/ KillBegin(t) \/ KillFinish(t)
    \/ ProcNext

\* concurrent Send and Reset calls alone, and the subprocesses
ResetNext ==
    \/ \E t \in Threads :
          \/ \E k \in Keys, op \in {"send", "reset"} : StartOp(t, op, k, NoSid)
          \/ GocFast(t) \/ GocLocked(t)
          \/ ProcSend(t) \/ EvictAfterSend(t)
          \/ ReadOK(t) \/ ReadFail(t) \/ EvictAfterRead(t) \/ PurgeStale(t)
          \/ PersistSession(t)
          \/ KillBegin(t) \/ KillFinish(t)
    \/ ProcNext

(***************************************************************************)
(* The permission bridge: the helper's tools/call handler, its HTTP client,*)
(* the supervisor's /permission endpoint and handler, and the button       *)
(* callback.  A string is a sequence of pieces: a piece of plain text, or  *)
(* one of the characters JSON treats specially.                            *)
(***************************************************************************)
Q == "\""
NL == "\n"
BS == "\\"
Special == {Q, NL, BS}

\* encoding/json: a string value as it is written between the quotes
RECURSIVE Escape(_)
Escape(s) ==
    IF s = <<>> THEN <<>>
    ELSE (CASE Head(s) = Q -> <<BS, Q>>
            [] Head(s) = NL -> <<BS, "n">>
            [] Head(s) = BS -> <<BS, BS>>
            [] OTHER -> <<Head(s)>>) \o Escape(Tail(s))

\* encoding/json: the text between the quotes is a string value
RECURSIVE ValidBody(_)
ValidBody(s) ==
    IF s = <<>> THEN TRUE
    ELSE IF Head(s) \in {Q, NL} THEN FALSE
    ELSE IF Head(s) = BS
         THEN /\ Len(s) >= 2
              /\ s[2] \in {Q, BS, "n"}
              /\ ValidBody(Tail(Tail(s)))
    ELSE ValidBody(Tail(s))

\* encoding/json: the string value the text between the quotes stands for
RECURSIVE Unescape(_)
Unescape(s) ==
    IF s = <<>> THEN <<>>
    ELSE IF Head(s) = BS
         THEN <<(IF s[2] = "n" THEN NL ELSE s[2])>> \o Unescape(Tail(Tail(s)))
    ELSE <<Head(s)>> \o Unescape(Tail(s))

\* a PermissionResponse, and the JSON object text {"behavior":..,"message":..}
Response(behavior, message) == [behavior |-> behavior, message |-> message]
NoResponse == Response("", <<>>)
JSONText(behavior, body) == [behavior |-> behavior, body |-> body]
NoText == JSONText("", <<>>)

\* a marshalling that writes the message as it is
MarshalRaw(resp) == JSONText(resp.behavior, resp.message)

\* json.Marshal / Encoder.Encode of a PermissionResponse
Marshal(resp) == JSONText(resp.behavior, Escape(resp.message))

\* json.Unmarshal / Decoder.Decode into a PermissionResponse
Unmarshal(text) ==
    IF ValidBody(text.body)
    THEN [ok |-> TRUE, resp |-> Response(text.behavior, Unescape(text.body))]
    ELSE [ok |-> FALSE, resp |-> NoResponse]

\* url.Error.Error(): Op + " " + strconv.Quote-like %q of the URL + ": " + Err
URLError(cause) == <<"Post ", Q, "http://127.0.0.1:port/permission", Q, ": ", cause>>
\* RequestPermission: fmt.Errorf("sending request: %w", err)
SendingRequest(err) == <<"sending request: ">> \o err
\* http.Error writes the message and a newline
HTTPErrorBody(msg) == <<msg, NL>>
\* RequestPermission: fmt.Errorf("server error %d: %s", status, body)
ServerError(body) == <<"server error 400: ">> \o body

\* handleToolsCall: fmt.Sprintf(`{"behavior":"deny","message":"Error: %s"}`, err.Error())
ErrorText(err) == JSONText("deny", <<"Error: ">> \o err)

Chats == {"c1"}
Reqs == 1..MaxReqs
NoReq == 0
Presses == {"b1", "b2"}
Behaviors == {"allow", "allow-always", "deny"}

\* the button callback's PermissionResult for an action ("a", "aa", "d")
Result(behavior) ==
    Response(behavior, IF behavior = "deny" THEN <<"User denied permission">> ELSE <<>>)

\* one tools/call of the helper and the supervisor's handling of its POST
IdleReq ==
    [hp |-> "idle",          \* helper: idle, posting, waiting, answered
     sp |-> "none",          \* supervisor handler: none, kbd, set, wait, done
     respChan |-> <<>>,      \* the handler's response channel (capacity 1)
     ctxDone |-> FALSE,      \* the request's context is cancelled
     visible |-> FALSE,      \* the keyboard message is in the chat
     resp |-> NoResponse,    \* what the handler returned
     text |-> NoText,        \* the result text of the tools/call
     \* history
     resolvedBy |-> "", returns |-> 0, writes |-> 0, answers |-> 0, error |-> ""]

IdlePress ==
    [pc |-> "idle", on |-> NoReq, behavior |-> "", pending |-> NoReq, reply |-> "",
     \* history
     late |-> FALSE, wrote |-> FALSE]

\* the supervisor and a helper, with or without their handlers set
PermStart(helperHandler, serverHandler) ==
    /\ conf = [helperHandler |-> helperHandler, serverHandler |-> serverHandler]
    /\ permission = [c \in Chats |-> NoReq]
    /\ rq = [r \in Reqs |-> IdleReq]
    /\ press = [b \in Presses |-> IdlePress]

PermInit == \E h \in BOOLEAN, s \in BOOLEAN : PermStart(h, s)
PermIdle == PermStart(TRUE, TRUE)

\* trackers.Manager: the pending permission of a chat
SetPermission(chat, r) == [permission EXCEPT ![chat] = r]
GetPermission(chat) == permission[chat]
ClearPermission(chat) == [permission EXCEPT ![chat] = NoReq]

\* the helper answers the tools/call of r with text
Answer(req, text, error) ==
    [req EXCEPT !.hp = "answered", !.text = text, !.answers = @ + 1, !.error = error]

\* Serve reads one request at a time: handleToolsCall is entered
ToolsCall(r) ==
    /\ UNCHANGED notPerm
    /\ rq[r].hp = "idle"
    /\ \A o \in Reqs : o < r => rq[o].hp = "answered"
    /\ rq' = [rq EXCEPT ![r] =
                IF ~conf.helperHandler
                THEN Answer(@, JSONText("deny", <<"No permission handler configured">>),
                            "no handler")
                ELSE [@ EXCEPT !.hp = "posting"]]
    /\ UNCHANGED <<conf, permission, press>>

\* RequestPermission: client.Do fails before the supervisor sees the request
HTTPFailure(r) ==
    /\ UNCHANGED notPerm
    /\ rq[r].hp = "posting"
    /\ rq' = [rq EXCEPT ![r] =
                Answer(@, ErrorText(SendingRequest(URLError("connection refused"))),
                       "http failure")]
    /\ UNCHANGED <<conf, permission, press>>

\* handlePermission cannot read the body: 400, which RequestPermission turns
\* into an error
HTTPBadRequest(r) ==
    /\ UNCHANGED notPerm
    /\ rq[r].hp = "posting"
    /\ rq' = [rq EXCEPT ![r] =
                Answer(@, ErrorText(ServerError(HTTPErrorBody("failed to read body"))),
                       "non-200")]
    /\ UNCHANGED <<conf, permission, press>>

\* handlePermission: the request is read; without a handler it is denied
HandlePermission(r) ==
    /\ UNCHANGED notPerm
    /\ rq[r].hp = "posting"
    /\ rq' = [rq EXCEPT ![r] =
                IF ~conf.serverHandler
                THEN [@ EXCEPT !.hp = "waiting", !.sp = "done", !.returns = @ + 1,
                               !.resolvedBy = "no handler",
                               !.resp = Response("deny", <<"No handler configured">>)]
                ELSE [@ EXCEPT !.hp = "waiting", !.sp = "kbd"]]
    /\ UNCHANGED <<conf, permission, press>>

\* the texts of the errors SendPermissionKeyboard returns
TelegramErrors == { <<"telegram error">>, <<"telegram error ", Q, "text", Q>> }

\* the handler: SendPermissionKeyboard, and the deny when it fails
SendPermissionKeyboard(r) ==
    /\ UNCHANGED notPerm
    /\ rq[r].sp = "kbd"
    /\ \/ rq' = [rq EXCEPT ![r] = [@ EXCEPT !.sp = "set", !.visible = TRUE]]
       \/ \E err \in TelegramErrors :
            rq' = [rq EXCEPT ![r] =
                     [@ EXCEPT !.sp = "done", !.returns = @ + 1, !.resolvedBy = "keyboard",
                               !.resp = Response("deny",
                                                 <<"Failed to send keyboard: ">> \o err)]]
    /\ UNCHANGED <<conf, permission, press>>

\* the handler: the pending permission is stored
StorePending(r) ==
    /\ UNCHANGED notPerm
    /\ rq[r].sp = "set"
    /\ \E chat \in Chats : permission' = SetPermission(chat, r)
    /\ rq' = [rq EXCEPT ![r].sp = "wait"]
    /\ UNCHANGED <<conf, press>>

\* the handler's select: a result is on the response channel
SelectDecision(r) ==
    /\ UNCHANGED notPerm
    /\ rq[r].sp = "wait" /\ rq[r].respChan # <<>>
    /\ rq' = [rq EXCEPT ![r] =
                [@ EXCEPT !.sp = "done", !.returns = @ + 1, !.resolvedBy = "decision",
                          !.respChan = <<>>, !.resp = Head(rq[r].respChan)]]
    /\ UNCHANGED <<conf, permission, press>>

\* the handler's select: the request's context is done
SelectCancelled(r) ==
    /\ UNCHANGED notPerm
    /\ rq[r].sp = "wait" /\ rq[r].ctxDone
    /\ \E chat \in Chats : permission' = ClearPermission(chat)
    /\ rq' = [rq EXCEPT ![r] =
                [@ EXCEPT !.sp = "done", !.returns = @ + 1, !.resolvedBy = "cancel",
                          !.visible = FALSE,
                          !.resp = Response("deny", <<"Request cancelled">>)]]
    /\ UNCHANGED <<conf, press>>

\* the handler's select: two minutes have passed
SelectTimeout(r) ==
    /\ UNCHANGED notPerm
    /\ rq[r].sp = "wait"
    /\ \E chat \in Chats : permission' = ClearPermission(chat)
    /\ rq' = [rq EXCEPT ![r] =
                [@ EXCEPT !.sp = "done", !.returns = @ + 1, !.resolvedBy = "timeout",
                          !.visible = FALSE,
                          !.resp = Response("deny", <<"Permission request timed out">>)]]
    /\ UNCHANGED <<conf, press>>

\* the helper's HTTP client gives up after its own timeout; the supervisor
\* sees the connection close
ClientTimeout(r) ==
    /\ UNCHANGED notPerm
    /\ rq[r].hp = "waiting"
    /\ rq' = [rq EXCEPT ![r] =
                [Answer(@, ErrorText(SendingRequest(URLError("context deadline exceeded"))),
                        "http failure")
                 EXCEPT !.ctxDone = TRUE]]
    /\ UNCHANGED <<conf, permission, press>>

\* handlePermission encodes the handler's response, RequestPermission decodes
\* it, handleToolsCall marshals it into the result text
HTTPResponse(r) ==
    /\ UNCHANGED notPerm
    /\ rq[r].hp = "waiting" /\ rq[r].sp = "done"
    /\ LET got == Unmarshal(Marshal(rq[r].resp))
       IN  rq' = [rq EXCEPT ![r] =
                    IF got.ok THEN Answer(@, Marshal(got.resp), "")
                    ELSE Answer(@, ErrorText(<<"decoding response: ", "json error">>),
                                "decode")]
    /\ UNCHANGED <<conf, permission, press>>

\* the user presses a button of the keyboard of request r; the callback query
\* is on its way
PressButton(b, r, behavior) ==
    /\ UNCHANGED notPerm
    /\ press[b].pc = "idle" /\ rq[r].visible
    /\ press' = [press EXCEPT ![b] =
                   [@ EXCEPT !.pc = "queued", !.on = r, !.behavior = behavior]]
    /\ UNCHANGED <<conf, permission, rq>>

\* the button callback: GetPermission, "expired" when there is none
CallbackGet(b) ==
    /\ UNCHANGED notPerm
    /\ press[b].pc = "queued"
    /\ \E chat \in Chats :
         LET pending == GetPermission(chat)
             late == rq[press[b].on].resolvedBy = "timeout"
         IN  press' = [press EXCEPT ![b] =
                         IF pending = NoReq
                         THEN [@ EXCEPT !.pc = "done", !.late = late,
                                        !.reply = "Permission request expired"]
                         ELSE [@ EXCEPT !.pc = "write", !.late = late,
                                        !.pending = pending]]
    /\ UNCHANGED <<conf, permission, rq>>

\* the button callback: the non-blocking send on the pending's channel
CallbackWrite(b) ==
    /\ UNCHANGED notPerm
    /\ press[b].pc = "write"
    /\ LET r == press[b].pending
       IN  IF Len(rq[r].respChan) < 1
           THEN /\ rq' = [rq EXCEPT ![r] =
                            [@ EXCEPT !.respChan = <<Result(press[b].behavior)>>,
                                      !.writes = @ + 1]]
                /\ press' = [press EXCEPT ![b] = [@ EXCEPT !.pc = "clear", !.wrote = TRUE]]
           ELSE /\ press' = [press EXCEPT ![b] =
                               [@ EXCEPT !.pc = "done",
                                         !.reply = "Permission: " \o press[b].behavior]]
                /\ UNCHANGED rq
    /\ UNCHANGED <<conf, permission>>

\* the button callback after a successful send: DeleteMessage, ClearPermission
CallbackClear(b) ==
    /\ UNCHANGED notPerm
    /\ press[b].pc = "clear"
    /\ rq' = [rq EXCEPT ![press[b].pending].visible = FALSE]
    /\ \E chat \in Chats : permission' = ClearPermission(chat)
    /\ press' = [press EXCEPT ![b] =
                   [@ EXCEPT !.pc = "done", !.reply = "Permission: " \o press[b].behavior]]
    /\ UNCHANGED conf

PermNext ==
    \/ \E r \in Reqs :
          \/ ToolsCall(r) \/ HTTPFailure(r) \/ HTTPBadRequest(r) \/ HandlePermission(r)
          \/ SendPermissionKeyboard(r) \/ StorePending(r)
          \/ SelectDecision(r) \/ SelectCancelled(r) \/ SelectTimeout(r)
          \/ ClientTimeout(r) \/ HTTPResponse(r)
    \/ \E b \in Presses :
          \/ \E r \in Reqs, behavior \in Behaviors : PressButton(b, r, behavior)
          \/ CallbackGet(b) \/ CallbackWrite(b) \/ CallbackClear(b)

(***************************************************************************)
(* The session store: SessionPersistence keeps chat id -> SessionMapping   *)
(* in memory; Set and Delete change the map and start a Save in the        *)
(* background; Save writes the map to the sessions file; Load reads the    *)
(* file into the map of a store.                                           *)
(***************************************************************************)
ChatIDs == {1, 2}
SessionIDs == {"s1", "7"}
SaverIds == 0 .. MaxSets
CallerSave == 0

\* time.Time: the instant, and whether it carries a monotonic clock reading
Time(ns, mono) == [ns |-> ns, mono |-> mono]
ZeroTime == Time(0, FALSE)
\* time.Now()
Now == Time(now, TRUE)
\* yaml.v3 writes a time.Time as RFC3339Nano text and parses it back: the
\* instant is kept, the monotonic reading is not
FormatTime(t) == <<"T", t.ns>>
ParseTime(txt) == Time(txt[2], FALSE)
\* t.Equal(u)
TimeEqual(t, u) == t.ns = u.ns

\* yaml.v3 writes a string that would read as another type in quotes
Quoted == {"7", ""}
FormatString(str) == IF str \in Quoted THEN <<Q, str, Q>> ELSE <<str>>
ParseString(txt) == IF Len(txt) = 3 THEN txt[2] ELSE txt[1]

\* SessionMapping, and the absence of a map entry
SessionMapping(chatID, sid, at) ==
    [ok |-> TRUE, ChatID |-> chatID, SessionID |-> sid, LastActive |-> at]
NoMapping == [ok |-> FALSE, ChatID |-> 0, SessionID |-> "", LastActive |-> ZeroTime]
NoSessions == [c \in ChatIDs |-> NoMapping]
Entries(m) == { c \in ChatIDs : m[c].ok }

\* one record of the file
MarshalMapping(sm) ==
    [chat_id |-> sm.ChatID, session_id |-> FormatString(sm.SessionID),
     last_active |-> FormatTime(sm.LastActive)]
UnmarshalMapping(rec) ==
    SessionMapping(rec.chat_id, ParseString(rec.session_id), ParseTime(rec.last_active))

\* the orders in which a range over the map can visit its entries
RangeOrders(m) ==
    { o \in [1 .. Cardinality(Entries(m)) -> Entries(m)] :
         \A i, j \in DOMAIN o : i # j => o[i] # o[j] }

\* Save, lines 74-85: the map as a list of records, in a range order
MarshalSessions(m, o) == [i \in DOMAIN o |-> MarshalMapping(m[o[i]])]

\* Load, lines 55-64: the records into a new map, a later record of a chat
\* id replacing an earlier one
RECURSIVE UnmarshalSessions(_)
UnmarshalSessions(recs) ==
    IF recs = <<>> THEN NoSessions
    ELSE LET r == recs[Len(recs)]
         IN  [UnmarshalSessions(SubSeq(recs, 1, Len(recs) - 1))
                EXCEPT ![r.chat_id] = UnmarshalMapping(r)]

Absent == [exists |-> FALSE, recs |-> <<>>]
File(recs) == [exists |-> TRUE, recs |-> recs]

\* Get and GetAll
Get(m, chatID) == IF m[chatID].ok THEN m[chatID].SessionID ELSE ""
GetAll(m) == [c \in Entries(m) |-> m[c].SessionID]

IdleSaver == [pc |-> "none", data |-> <<>>]
NotLoaded == [loaded |-> FALSE, sessions |-> NoSessions]

\* NewSessionPersistence; the sessions file does not exist
StoStart ==
    /\ mappings = NoSessions
    /\ disk = Absent
    /\ savers = [s \in SaverIds |-> IdleSaver]
    /\ reloaded = NotLoaded
    /\ now = 1
    /\ rw = [writer |-> "none", reader |-> "none"]

\* the store is there and nothing uses it
StoIdle == StoStart /\ caller = "loaded"

\* a program is about to use the store
StoInit == StoStart /\ caller = "setting"

\* a Save that holds no lock
SavingUnlocked(s) == FALSE

\* a Save call holds p.mu shared from its first line to its return
Saving(s) == savers[s].pc \in {"marshalled", "opened"}
\* p.mu.Lock() returns
CanLock == \A s \in SaverIds : ~Saving(s)
\* p.mu.RLock() returns: sync.RWMutex lets no new reader in while a Lock call waits
CanRLock == rw.writer = "none"
\* go p.Save()
GoSave == \E s \in SaverIds \ {CallerSave} :
             /\ savers[s].pc = "none"
             /\ \A u \in SaverIds \ {CallerSave} : u < s => savers[u].pc # "none"
             /\ savers' = [savers EXCEPT ![s].pc = "started"]

\* Set(chatID, sessionID)
Set(chatID, sid) ==
    /\ UNCHANGED notSto
    /\ caller = "setting" /\ now <= MaxSets /\ CanLock
    /\ mappings' = [mappings EXCEPT ![chatID] = SessionMapping(chatID, sid, Now)]
    /\ now' = now + 1
    /\ GoSave
    /\ rw' = [rw EXCEPT !.writer = "none"]
    /\ UNCHANGED <<disk, reloaded, caller>>

\* Delete(chatID)
Delete(chatID) ==
    /\ UNCHANGED notSto
    /\ caller = "setting" /\ now <= MaxSets /\ CanLock
    /\ mappings' = [mappings EXCEPT ![chatID] = NoMapping]
    /\ now' = now + 1
    /\ GoSave
    /\ rw' = [rw EXCEPT !.writer = "none"]
    /\ UNCHANGED <<disk, reloaded, caller>>

\* Set or Delete has called p.mu.Lock() while a Save holds the lock shared: it waits
LockWait ==
    /\ UNCHANGED notSto
    /\ caller = "setting" /\ now <= MaxSets /\ ~CanLock /\ rw.writer = "none"
    /\ rw' = [rw EXCEPT !.writer = "waiting"]
    /\ UNCHANGED <<mappings, disk, savers, reloaded, now, caller>>

\* another goroutine calls Get or GetAll: p.mu.RLock() returns, or has to wait
ReaderCall ==
    /\ UNCHANGED notSto
    /\ rw.reader = "none"
    /\ rw' = [rw EXCEPT !.reader = IF CanRLock THEN "done" ELSE "waiting"]
    /\ UNCHANGED <<mappings, disk, savers, reloaded, now, caller>>

\* ... the waiting p.mu.RLock() returns, the map is read
ReaderReturn ==
    /\ UNCHANGED notSto
    /\ rw.reader = "waiting" /\ CanRLock
    /\ rw' = [rw EXCEPT !.reader = "done"]
    /\ UNCHANGED <<mappings, disk, savers, reloaded, now, caller>>

\* the caller calls Save
SaveCall ==
    /\ UNCHANGED notSto
    /\ caller = "setting" /\ savers[CallerSave].pc = "none"
    /\ rw.writer = "none"
    /\ savers' = [savers EXCEPT ![CallerSave].pc = "started"]
    /\ caller' = "saving"
    /\ UNCHANGED <<mappings, disk, reloaded, now, rw>>

\* Save, lines 71-85: RLock, the map to a list, yaml.Marshal
SaveMarshal(s) ==
    /\ UNCHANGED notSto
    /\ savers[s].pc = "started" /\ CanRLock
    /\ \E o \in RangeOrders(mappings) :
          savers' = [savers EXCEPT ![s] =
                        [pc |-> "marshalled", data |-> MarshalSessions(mappings, o)]]
    /\ UNCHANGED <<mappings, disk, reloaded, now, caller, rw>>

\* Save, line 93: os.WriteFile opens the file with O_CREATE|O_TRUNC
SaveOpen(s) ==
    /\ UNCHANGED notSto
    /\ savers[s].pc = "marshalled"
    /\ disk' = File(<<>>)
    /\ savers' = [savers EXCEPT ![s].pc = "opened"]
    /\ UNCHANGED <<mappings, reloaded, now, caller, rw>>

\* Save, lines 93-97: os.WriteFile writes the data; RUnlock; return
SaveWrite(s) ==
    /\ UNCHANGED notSto
    /\ savers[s].pc = "opened"
    /\ disk' = File(savers[s].data)
    /\ savers' = [savers EXCEPT ![s] = [pc |-> "done", data |-> <<>>]]
    /\ caller' = IF s = CallerSave THEN "saved" ELSE caller
    /\ UNCHANGED <<mappings, reloaded, now, rw>>

\* Load on a new store, after the caller's Save returned
Load ==
    /\ UNCHANGED notSto
    /\ caller = "saved"
    /\ reloaded' = [loaded |-> TRUE,
                    sessions |-> IF disk.exists THEN UnmarshalSessions(disk.recs)
                                 ELSE NoSessions]
    /\ caller' = "loaded"
    /\ UNCHANGED <<mappings, disk, savers, now, rw>>

StoNext ==
    \/ \E c \in ChatIDs, sid \in SessionIDs : Set(c, sid)
    \/ \E c \in ChatIDs : Delete(c)
    \/ LockWait \/ ReaderCall \/ ReaderReturn
    \/ SaveCall
    \/ \E s \in SaverIds : SaveMarshal(s) \/ SaveOpen(s) \/ SaveWrite(s)
    \/ Load

(***************************************************************************)
(* ClaudeProcess.Send: the message becomes a prompt, the prompt one line   *)
(* of JSON on the subprocess's stdin.  A message is a sequence of pieces:  *)
(* single characters, "aria" (the four letters) and "x" (any other text).  *)
(***************************************************************************)
Pieces == {"/", "aria", "x", "_", " ", NL}
Messages == UNION { [1 .. n -> Pieces] : n \in 0 .. MaxMsgLen }

\* strings.HasPrefix
HasPrefix(s, prefix) ==
    Len(s) >= Len(prefix) /\ SubSeq(s, 1, Len(prefix)) = prefix

\* strings.ReplaceAll(s, "_", "-")
ReplaceAll(s) == [i \in DOMAIN s |-> IF s[i] = "_" THEN "-" ELSE s[i]]

\* where the first space of s is (0: none)
IndexSpace(s) ==
    IF \E i \in DOMAIN s : s[i] = " "
    THEN CHOOSE i \in DOMAIN s : s[i] = " " /\ \A j \in 1 .. i - 1 : s[j] # " "
    ELSE 0

\* convertTelegramCommand: strings.SplitN(message, " ", 2), hyphens for the
\* underscores of the first part, the parts joined again
convertTelegramCommand(msg) ==
    LET i == IndexSpace(msg)
    IN  IF i = 0 THEN ReplaceAll(msg)
        ELSE ReplaceAll(SubSeq(msg, 1, i - 1)) \o <<" ">> \o SubSeq(msg, i + 1, Len(msg))

\* Send, lines 179-195: the prompt
Prompt(msg) ==
    IF HasPrefix(msg, <<"/">>) /\ ~HasPrefix(msg, <<"/", "aria">>)
    THEN convertTelegramCommand(msg)
    ELSE <<"/", "aria", " ">> \o msg

\* Send, lines 197-211: json.Marshal of the UserMessage, and a newline
UserMessageLine(prompt) ==
    <<"{type:user,message:{role:user,content:", Q>> \o Escape(prompt) \o <<Q, "}}", NL>>

\* the lines a reader of the pipe sees in what was written: each ends at a newline
NewLines(text) == { i \in DOMAIN text : text[i] = NL }

\* the content of the user message a line stands for
ContentOf(line) == Unescape(SubSeq(line, 3, Len(line) - 3))

PipeStart(msg) ==
    /\ userMsg = msg
    /\ stdinOpen = TRUE
    /\ stdinLines = <<>>
    /\ sendRet = ""

\* no message is being sent
PipeIdle == PipeStart(<<>>)

\* Send is about to be called with some message
PipeInit == \E msg \in Messages : PipeStart(msg)

\* Send(message): the line is written, or the write fails on a closed pipe
SendMessage ==
    /\ UNCHANGED notPipe
    /\ sendRet = ""
    /\ IF stdinOpen
       THEN /\ stdinLines' = Append(stdinLines, UserMessageLine(Prompt(userMsg)))
            /\ sendRet' = "nil"
       ELSE /\ sendRet' = "err"
            /\ UNCHANGED stdinLines
    /\ UNCHANGED <<userMsg, stdinOpen>>

\* Close, lines 621-626: p.stdin.Close()
StdinClose ==
    /\ UNCHANGED notPipe
    /\ stdinOpen
    /\ stdinOpen' = FALSE
    /\ UNCHANGED <<userMsg, stdinLines, sendRet>>

PipeNext == SendMessage \/ StdinClose

(***************************************************************************)
(* telegram.Bot: the dispatcher hands every message and callback query to  *)
(* handleMessage and handleCallback, which call the handlers main set.     *)
(***************************************************************************)
Users == {"u1", "u2"}

\* New: the allowlist slice as a map; SetHandler, SetCallbackHandler
NewBot(allowlist, handler, callbackHandler) ==
    [allowlist |-> allowlist, handler |-> handler, callbackHandler |-> callbackHandler]

\* a Bot that lets every user in
AllowAll(userID) == TRUE

\* b.allowlist[userID]
Allowed(userID) == userID \in bot.allowlist

\* what the Bot did for an update: invoked is the handler it called ("" none),
\* typing the chat action it sent, answered the callback answer it sent
Handled(kind, userID, invoked, typing, answered) ==
    [kind |-> kind, user |-> userID, invoked |-> invoked,
     typing |-> typing, answered |-> answered]

BotStart(b) == bot = b /\ updates = <<>>

\* no Bot is polling
BotIdle == BotStart(NewBot({}, FALSE, FALSE))

\* New with some allowlist, the handlers set or not, Start
BotInit ==
    \E allowlist \in SUBSET Users, handler \in BOOLEAN, callbackHandler \in BOOLEAN :
        BotStart(NewBot(allowlist, handler, callbackHandler))

\* handleMessage for a message of userID; hasText: the message is there and
\* has a text
handleMessage(userID, hasText) ==
    /\ UNCHANGED notBot
    /\ Len(updates) < MaxUpdates
    /\ updates' = Append(updates,
          IF ~hasText \/ ~Allowed(userID)
          THEN Handled("message", userID, "", FALSE, FALSE)
          ELSE IF bot.handler
               THEN Handled("message", userID, "handler", TRUE, FALSE)
               ELSE Handled("message", userID, "", FALSE, FALSE))
    /\ UNCHANGED bot

\* handleCallback for a button press of userID
handleCallback(userID) ==
    /\ UNCHANGED notBot
    /\ Len(updates) < MaxUpdates
    /\ updates' = Append(updates,
          IF ~Allowed(userID)
          THEN Handled("callback", userID, "", FALSE, FALSE)
          ELSE Handled("callback", userID,
                       IF bot.callbackHandler THEN "callbackHandler" ELSE "", FALSE, TRUE))
    /\ UNCHANGED bot

BotNext ==
    \E userID \in Users :
       \/ \E hasText \in BOOLEAN : handleMessage(userID, hasText)
       \/ handleCallback(userID)

(***************************************************************************)
(* SessionID, SessionIDFromString, hashToUUID.  A string is a sequence of  *)
(* pieces; a hexadecimal text is a sequence of digits.                     *)
(***************************************************************************)
ChatNumbers == {1, 2}
Identifiers == { <<"x">>, <<"chat-", "1">> }

\* fmt.Sprintf("%d", n)
Itoa(n) == IF n = 1 THEN "1" ELSE "2"
\* fmt.Sprintf("aria-chat-%d", chatID) and fmt.Sprintf("aria-%s", identifier)
ChatInput(chatID) == <<"aria-", "chat-", Itoa(chatID)>>
IdentifierInput(identifier) == <<"aria-">> \o identifier
HashInputs ==
    { ChatInput(c) : c \in ChatNumbers } \cup { IdentifierInput(i) : i \in Identifiers }

\* 16 bytes, as hash[:16] can be
SomeBytes ==
    { [i \in 1 .. 16 |-> 0], [i \in 1 .. 16 |-> 255], [i \in 1 .. 16 |-> (i * 27 + 144) % 256] }

\* encoding/hex with capital letters
HexDigitUpper(n) ==
    <<"0", "1", "2", "3", "4", "5", "6", "7", "8", "9", "A", "B", "C", "D", "E", "F">>[n + 1]

\* encoding/hex: the digit of a value 0..15
HexDigit(n) ==
    <<"0", "1", "2", "3", "4", "5", "6", "7", "8", "9", "a", "b", "c", "d", "e", "f">>[n + 1]

\* hex.EncodeToString: two digits per byte
EncodeToString(bytes) ==
    [i \in 1 .. 2 * Len(bytes) |->
        IF i % 2 = 1 THEN HexDigit(bytes[(i + 1) \div 2] \div 16)
        ELSE HexDigit(bytes[i \div 2] % 16)]

\* hashToUUID: the hash, its first 16 bytes in hexadecimal, cut in five
hashToUUID(input) ==
    LET hex == EncodeToString(sum256[input])
    IN  SubSeq(hex, 1, 8) \o <<"-">> \o SubSeq(hex, 9, 12) \o <<"-">> \o
        SubSeq(hex, 13, 16) \o <<"-">> \o SubSeq(hex, 17, 20) \o <<"-">> \o
        SubSeq(hex, 21, 32)

SessionID(chatID) == hashToUUID(ChatInput(chatID))
SessionIDFromString(identifier) == hashToUUID(IdentifierInput(identifier))

IdStart(h) == sum256 = h /\ issued = <<>>

\* nothing asks for a session id
IdIdle == IdStart([i \in HashInputs |-> [j \in 1 .. 16 |-> 0]])

\* the hash is some function of its input
IdInit == \E h \in [HashInputs -> SomeBytes] : IdStart(h)

\* a call of SessionID
CallSessionID(chatID) ==
    /\ UNCHANGED notId
    /\ Len(issued) < MaxIds
    /\ issued' = Append(issued, [fn |-> "SessionID", arg |-> <<Itoa(chatID)>>,
                                 id |-> SessionID(chatID)])
    /\ UNCHANGED sum256

\* a call of SessionIDFromString
CallSessionIDFromString(identifier) ==
    /\ UNCHANGED notId
    /\ Len(issued) < MaxIds
    /\ issued' = Append(issued, [fn |-> "SessionIDFromString", arg |-> identifier,
                                 id |-> SessionIDFromString(identifier)])
    /\ UNCHANGED sum256

IdNext ==
    \/ \E chatID \in ChatNumbers : CallSessionID(chatID)
    \/ \E identifier \in Identifiers : CallSessionIDFromString(identifier)

(***************************************************************************)
(* The permission bridge's configuration: GetConfigPath writes one config  *)
(* file per chat; the helper started from it reads the callback port and   *)
(* the chat id from its environment and puts the chat id in every request. *)
(***************************************************************************)
BrChats == {1, 2, -12}
Ports == {8, 40}
NoPath == <<>>
NoFile == [exists |-> FALSE, port |-> <<>>, chat |-> <<>>]
NoClient == [ok |-> FALSE, port |-> 0, chatID |-> 0]
NoHelper == 0

\* fmt.Sprintf("%d", n)
DigitChar(d) == <<"0", "1", "2", "3", "4", "5", "6", "7", "8", "9">>[d + 1]
RECURSIVE FormatNat(_)
FormatNat(n) == IF n < 10 THEN <<DigitChar(n)>>
                ELSE FormatNat(n \div 10) \o <<DigitChar(n % 10)>>
FormatInt(n) == IF n < 0 THEN <<"-">> \o FormatNat(0 - n) ELSE FormatNat(n)

\* strconv.Atoi, strconv.ParseInt(s, 10, 64): the value, or an error
IsDigit(c) == \E d \in 0..9 : DigitChar(d) = c
DigitVal(c) == CHOOSE d \in 0..9 : DigitChar(d) = c
RECURSIVE ParseNat(_)
ParseNat(str) == IF Len(str) = 1 THEN DigitVal(str[1])
                 ELSE 10 * ParseNat(SubSeq(str, 1, Len(str) - 1)) + DigitVal(str[Len(str)])
ParseInt(str) ==
    LET neg == str # <<>> /\ str[1] = "-"
        body == IF neg THEN Tail(str) ELSE str
    IN  IF body = <<>> \/ \E i \in DOMAIN body : ~IsDigit(body[i])
        THEN [ok |-> FALSE, val |-> 0]
        ELSE [ok |-> TRUE, val |-> IF neg THEN 0 - ParseNat(body) ELSE ParseNat(body)]

\* filepath.Join(m.tmpDir, fmt.Sprintf("mcp-%d.json", chatID))
ConfigPath(chatID) == <<"mcp-">> \o FormatInt(chatID) \o <<".json">>
Paths == { ConfigPath(c) : c \in BrChats }

\* an env block that names the first chat whichever chat it is written for
ConfigEnvOfFirstChat(chatID) ==
    [exists |-> TRUE, port |-> FormatInt(callbackPort), chat |-> FormatInt(1)]

\* the env block of the config GetConfigPath writes for a chat
ConfigEnv(chatID) ==
    [exists |-> TRUE, port |-> FormatInt(callbackPort), chat |-> FormatInt(chatID)]

\* the config the subprocess of a chat is started with: the one ConfigFunc,
\* that is GetConfigPath, returned for the chat
HelperConfig(chatID) == bridges[chatID]

\* NewBridgeManager(ariaPath, callbackServer.Port(), logger)
BrStart(port) ==
    /\ callbackPort = port
    /\ bridges = [c \in BrChats |-> NoPath]
    /\ cfgFiles = [f \in Paths |-> NoFile]
    /\ clients = [c \in BrChats |-> NoClient]
    /\ received = {}
    /\ pendingFrom = [c \in BrChats |-> NoHelper]
    /\ returned = {}

BrIdle == BrStart(8)
BrInit == \E port \in Ports : BrStart(port)

\* GetConfigPath(chatID): the known path, or the file is written and the
\* bridge registered; a failed write returns an error and registers nothing
GetConfigPath(chatID) ==
    /\ UNCHANGED notBr
    /\ IF bridges[chatID] # NoPath
       THEN /\ returned' = returned \cup {<<chatID, bridges[chatID]>>}
            /\ UNCHANGED <<bridges, cfgFiles>>
       ELSE \/ /\ cfgFiles' = [cfgFiles EXCEPT ![ConfigPath(chatID)] = ConfigEnv(chatID)]
               /\ bridges' = [bridges EXCEPT ![chatID] = ConfigPath(chatID)]
               /\ returned' = returned \cup {<<chatID, ConfigPath(chatID)>>}
            \/ UNCHANGED <<bridges, cfgFiles, returned>>
    /\ UNCHANGED <<callbackPort, clients, received, pendingFrom>>

\* the subprocess of a chat starts its helper from the chat's config:
\* NewCallbackClientFromEnv reads the two environment variables
NewCallbackClientFromEnv(chatID) ==
    /\ UNCHANGED notBr
    /\ HelperConfig(chatID) # NoPath /\ ~clients[chatID].ok
    /\ LET env == cfgFiles[HelperConfig(chatID)]
           port == ParseInt(env.port)
           chat == ParseInt(env.chat)
       IN  /\ env.exists /\ port.ok /\ chat.ok
           /\ clients' = [clients EXCEPT ![chatID] =
                            [ok |-> TRUE, port |-> port.val, chatID |-> chat.val]]
    /\ UNCHANGED <<callbackPort, bridges, cfgFiles, received, pendingFrom, returned>>

\* RequestPermission by the helper of a chat, handlePermission, and the
\* handler up to SetPermission(req.ChatID, ...)
RequestPermission(chatID) ==
    /\ UNCHANGED notBr
    /\ clients[chatID].ok /\ clients[chatID].port = callbackPort
    /\ LET req == [helper |-> chatID, ChatID |-> clients[chatID].chatID]
       IN  /\ received' = received \cup {req}
           /\ req.ChatID \in BrChats
           /\ pendingFrom' = [pendingFrom EXCEPT ![req.ChatID] = chatID]
    /\ UNCHANGED <<callbackPort, bridges, cfgFiles, clients, returned>>

\* the wait of the request pending for a chat resolves: a button pressed in
\* that chat, or the handler's timeout: ClearPermission(chatID)
ResolvePending(chatID) ==
    /\ UNCHANGED notBr
    /\ pendingFrom[chatID] # NoHelper
    /\ pendingFrom' = [pendingFrom EXCEPT ![chatID] = NoHelper]
    /\ UNCHANGED <<callbackPort, bridges, cfgFiles, clients, received, returned>>

BrNext ==
    \E c \in BrChats :
        \/ GetConfigPath(c) \/ NewCallbackClientFromEnv(c)
        \/ RequestPermission(c) \/ ResolvePending(c)


(***************************************************************************)
(* Part nine: the timeouts of a permission request.  One request that no   *)
(* human answers, under a clock: the helper's HTTP client, the callback    *)
(* server's write deadline and the handler's timer.                        *)
(***************************************************************************)
\* http.Client{Timeout: 120 * time.Second}, in seconds
HTTPClientTimeout == 120
\* http.Server{WriteTimeout: 120 * time.Second}, in seconds
WriteTimeout == 120
\* time.After(2 * time.Minute), in seconds
PermissionWait == 2 * 60
NoTime == 0 - 1

\* what RequestPermission returned to handleToolsCall
NoReturn == [resp |-> NoResponse, err |-> ""]

TmStart(t) ==
    /\ clock = t
    /\ tq = [hp |-> "idle",        \* helper: idle, posting, waiting, answered
             sp |-> "none",        \* handler: none, kbd, wait, done, written
             started |-> NoTime,   \* client.Do was called
             headerAt |-> NoTime,  \* the server read the request's header
             timerAt |-> NoTime,   \* the handler entered its select
             ctxDone |-> FALSE,    \* r.Context() is cancelled
             resp |-> NoResponse,  \* what the handler returned
             ret |-> NoReturn]

TmIdle == TmStart(0)

\* the deadlines that are running, and those that have passed
ClientDeadline == tq.started + HTTPClientTimeout
WriteDeadline == tq.headerAt + WriteTimeout
TimerDeadline == tq.timerAt + PermissionWait
ClientRunning == tq.hp \in {"posting", "waiting"}
TimerRunning == tq.sp = "wait"

\* RequestPermission: cc.client.Do(httpReq); the client's timeout runs from here
PostRequest ==
    /\ UNCHANGED notTm
    /\ tq.hp = "idle"
    /\ tq' = [tq EXCEPT !.hp = "posting", !.started = clock]
    /\ UNCHANGED clock

\* the server has read the request: the write deadline of the connection
\* is set, handlePermission reads the body and calls the handler
ReadRequest ==
    /\ UNCHANGED notTm
    /\ tq.hp = "posting" /\ tq.sp = "none"
    /\ tq' = [tq EXCEPT !.hp = "waiting", !.sp = "kbd", !.headerAt = clock]
    /\ UNCHANGED clock

\* the handler: SendPermissionKeyboard has returned (a round trip to
\* Telegram), the pending permission is stored and the select entered
EnterSelect ==
    /\ UNCHANGED notTm
    /\ tq.sp = "kbd"
    /\ tq' = [tq EXCEPT !.sp = "wait", !.timerAt = clock]
    /\ UNCHANGED clock

\* the handler's select: time.After(2 * time.Minute) has fired
WaitTimeout ==
    /\ UNCHANGED notTm
    /\ TimerRunning /\ clock >= TimerDeadline
    /\ tq' = [tq EXCEPT !.sp = "done",
                        !.resp = Response("deny", <<"Permission request timed out">>)]
    /\ UNCHANGED clock

\* the handler's select: the request's context is done
WaitCancelled ==
    /\ UNCHANGED notTm
    /\ TimerRunning /\ tq.ctxDone
    /\ tq' = [tq EXCEPT !.sp = "done",
                        !.resp = Response("deny", <<"Request cancelled">>)]
    /\ UNCHANGED clock

\* the helper's client gives up: Do returns an error, the connection is
\* closed and the server cancels the request's context
ClientGivesUp ==
    /\ UNCHANGED notTm
    /\ ClientRunning /\ clock >= ClientDeadline
    /\ tq' = [tq EXCEPT !.hp = "answered", !.ctxDone = TRUE,
                        !.ret = [resp |-> NoResponse, err |-> "context deadline exceeded"]]
    /\ UNCHANGED clock

\* handlePermission encodes the handler's response: before the write
\* deadline it reaches the helper, after it the write fails and the server
\* closes the connection; at the deadline either happens
WriteResponse ==
    /\ UNCHANGED notTm
    /\ tq.sp = "done"
    /\ \E inTime \in BOOLEAN :
         /\ inTime => clock <= WriteDeadline
         /\ ~inTime => clock >= WriteDeadline
         /\ tq' = [tq EXCEPT !.sp = "written",
                             !.hp = IF tq.hp = "waiting" THEN "answered" ELSE @,
                             !.ret = IF tq.hp # "waiting" THEN @
                                     ELSE IF inTime THEN [resp |-> tq.resp, err |-> ""]
                                     ELSE [resp |-> NoResponse, err |-> "EOF"]]
    /\ UNCHANGED clock

\* the running deadlines still ahead
Ahead ==
    {t \in {ClientDeadline, TimerDeadline} :
        /\ t > clock
        /\ \/ t = ClientDeadline /\ ClientRunning
           \/ t = TimerDeadline /\ TimerRunning}

\* a timer that has fired and a cancelled context are handled before more
\* time passes
Urgent ==
    \/ ClientRunning /\ clock >= ClientDeadline
    \/ TimerRunning /\ (clock >= TimerDeadline \/ tq.ctxDone)

\* a second passes while the request is on its way: the latencies of the
\* loopback connection, of the handler and of its round trip to Telegram
Tick ==
    /\ UNCHANGED notTm
    /\ ~Urgent /\ clock < MaxLatency
    /\ clock' = clock + 1
    /\ UNCHANGED tq

\* nothing happens until the next deadline
Elapse ==
    /\ UNCHANGED notTm
    /\ ~Urgent /\ Ahead # {}
    /\ clock' = CHOOSE t \in Ahead : \A u \in Ahead : t <= u
    /\ UNCHANGED tq

TmNext ==
    \/ PostRequest \/ ReadRequest \/ EnterSelect
    \/ WaitTimeout \/ WaitCancelled \/ ClientGivesUp \/ WriteResponse
    \/ Tick \/ Elapse


(***************************************************************************)
(* Part ten: AskUserQuestion.  The pending question of one chat, the       *)
(* keyboards sent for it and the callbacks of their buttons.               *)
(***************************************************************************)
\* a question is the labels of its options; the sets the agent may ask
Colour == <<"red", "blue">>
Proceed == <<"yes", "no">>
QuestionSets == { <<Colour>>, <<Colour, Proceed>> }
\* tool.ID of the successive AskUserQuestion tool uses
AskID(n) == <<"ask", n>>
NoAskID == <<>>

\* trackers.PendingQuestion; NoQuestion is the nil pointer
PendingQuestion(id, questions) ==
    [ToolID |-> id, Questions |-> questions, CurrentIdx |-> 0, Answers |-> <<>>]
NoQuestion == PendingQuestion(NoAskID, <<>>)

\* BuildQuestionKeyboard: the callback data of the buttons of one question:
\* one per option, and "Other"
BuildQuestionKeyboard(toolID, questionIdx, q) ==
    {[Type |-> "q", ToolID |-> toolID, QuestionIdx |-> questionIdx, OptionIdx |-> i] :
        i \in 0..(Len(q) - 1)}
    \cup {[Type |-> "o", ToolID |-> toolID, QuestionIdx |-> questionIdx, OptionIdx |-> 0]}

\* the combined answer: the labels joined with ", "
RECURSIVE CombinedAnswer(_)
CombinedAnswer(answers) ==
    IF answers = <<>> THEN <<>>
    ELSE IF Len(answers) = 1 THEN answers
    ELSE <<Head(answers), ", ">> \o CombinedAnswer(Tail(answers))

AskIdle ==
    /\ question = NoQuestion
    /\ shown = {}
    /\ combined = <<>>
    /\ asks = 0

\* handleAskUserQuestion: the pending question is stored and the keyboard
\* of the first question sent
handleAskUserQuestion(questions) ==
    /\ UNCHANGED notAsk
    /\ asks < MaxAsks
    /\ asks' = asks + 1
    /\ question' = PendingQuestion(AskID(asks + 1), questions)
    /\ \/ shown' = shown \cup BuildQuestionKeyboard(AskID(asks + 1), 0, questions[1])
       \/ UNCHANGED shown
    /\ UNCHANGED combined

\* the callback handler for a button of a question keyboard (types "q", "o")
QuestionCallback(cb) ==
    /\ UNCHANGED notAsk
    /\ cb \in shown
    /\ IF question = NoQuestion
       THEN UNCHANGED <<question, shown, combined>>      \* "Question expired"
       ELSE IF cb.Type = "o"
       THEN /\ question' = NoQuestion                    \* "Type your answer and send it"
            /\ UNCHANGED <<shown, combined>>
       ELSE IF cb.QuestionIdx >= Len(question.Questions)
       THEN UNCHANGED <<question, shown, combined>>      \* "Invalid question"
       ELSE LET q == question.Questions[cb.QuestionIdx + 1]
            IN  IF cb.OptionIdx >= Len(q)
                THEN UNCHANGED <<question, shown, combined>>  \* "Invalid option"
                ELSE LET answers == Append(question.Answers, q[cb.OptionIdx + 1])
                         nextIdx == question.CurrentIdx + 1
                     IN  IF nextIdx < Len(question.Questions)
                         THEN /\ question' = [question EXCEPT !.Answers = answers,
                                                              !.CurrentIdx = nextIdx]
                              /\ \/ shown' = shown \cup
                                      BuildQuestionKeyboard(question.ToolID, nextIdx,
                                                            question.Questions[nextIdx + 1])
                                 \/ UNCHANGED shown
                              /\ UNCHANGED combined
                         ELSE /\ question' = NoQuestion
                              /\ combined' = Append(combined,
                                    [ToolID |-> question.ToolID,
                                     Questions |-> question.Questions,
                                     Answers |-> answers,
                                     text |-> CombinedAnswer(answers)])
                              /\ UNCHANGED shown
    /\ UNCHANGED asks

AskNext ==
    \/ \E questions \in QuestionSets : handleAskUserQuestion(questions)
    \/ \E cb \in shown : QuestionCallback(cb)


(***************************************************************************)
(* Part eleven: Load on a store in use.  The store has mappings, the file  *)
(* is what saves, other programs and editors left there, Load is called.   *)
(***************************************************************************)
\* every part but the store and the history of its Load calls
notStoLd == <<decVars, regVars, permVars, pipeVars, botVars, idVars, brVars, tmVars, askVars>>

\* a file os.ReadFile cannot read, and one whose text is not the YAML of a
\* PersistedSessions
Unreadable == [exists |-> TRUE, recs |-> <<>>, err |-> "permission denied"]
NotYAML == [exists |-> TRUE, recs |-> <<>>, err |-> "yaml: unmarshal errors"]

\* the records a sessions file may hold, and the files of up to
\* MaxRecords records, in any order and with chat ids repeated
FileRecords ==
    {MarshalMapping(SessionMapping(c, sid, Time(1, FALSE))) :
        c \in ChatIDs, sid \in SessionIDs}
Files ==
    {Absent, Unreadable, NotYAML}
    \cup UNION {{File(recs) : recs \in [1..n -> FileRecords]} : n \in 0..MaxRecords}

NoLoad == [called |-> FALSE, file |-> Absent, before |-> NoSessions,
           after |-> NoSessions, ret |-> ""]
LdIdle == lastLoad = NoLoad

\* the file is replaced: a save of this or another store, an editor, chmod
FileReplaced(f) ==
    /\ UNCHANGED notSto
    /\ caller = "setting" /\ disk # f
    /\ disk' = f
    /\ UNCHANGED <<mappings, savers, reloaded, now, caller, rw>>

\* Load that empties the map before it reads the file
LoadCallClearsFirst ==
    /\ UNCHANGED notStoLd
    /\ caller = "setting" /\ CanLock
    /\ LET sessions == IF ~disk.exists \/ disk \in {Unreadable, NotYAML} THEN NoSessions
                       ELSE UnmarshalSessions(disk.recs)
           ret == IF ~disk.exists THEN "nil"
                  ELSE IF disk = Unreadable THEN "reading sessions file: " \o disk.err
                  ELSE IF disk = NotYAML THEN "parsing sessions file: " \o disk.err
                  ELSE "nil"
       IN  /\ mappings' = sessions
           /\ lastLoad' = [called |-> TRUE, file |-> disk, before |-> mappings,
                           after |-> sessions, ret |-> ret]
    /\ caller' = "loaded"
    /\ UNCHANGED <<disk, savers, reloaded, now, rw>>

\* Load: a missing file is fine, a file that cannot be read or parsed is an
\* error, otherwise the records become the new map
LoadCall ==
    /\ UNCHANGED notStoLd
    /\ caller = "setting" /\ CanLock
    /\ LET sessions == IF ~disk.exists \/ disk \in {Unreadable, NotYAML} THEN mappings
                       ELSE UnmarshalSessions(disk.recs)
           ret == IF ~disk.exists THEN "nil"
                  ELSE IF disk = Unreadable THEN "reading sessions file: " \o disk.err
                  ELSE IF disk = NotYAML THEN "parsing sessions file: " \o disk.err
                  ELSE "nil"
       IN  /\ mappings' = sessions
           /\ lastLoad' = [called |-> TRUE, file |-> disk, before |-> mappings,
                           after |-> sessions, ret |-> ret]
    /\ caller' = "loaded"
    /\ UNCHANGED <<disk, savers, reloaded, now, rw>>

LoadNext ==
    \/ \E c \in ChatIDs, sid \in SessionIDs : Set(c, sid)
    \/ \E c \in ChatIDs : Delete(c)
    \/ \E f \in Files : FileReplaced(f)
    \/ LoadCall


(***************************************************************************)
(* The specifications.                                                     *)
(***************************************************************************)
Init == DecInit /\ RegInit /\ PermIdle /\ StoIdle /\ PipeIdle /\ BotIdle /\ IdIdle /\ BrIdle /\ TmIdle /\ AskIdle /\ LdIdle

\* the decoder
InitRead == DecInit /\ RegEmpty /\ PermIdle /\ StoIdle /\ PipeIdle /\ BotIdle /\ IdIdle /\ BrIdle /\ TmIdle /\ AskIdle /\ LdIdle
SpecRead == InitRead /\ [][DecNext]_vars

\* the registry
SpecReg == Init /\ [][RegNext]_vars

\* the permission bridge
InitPerm == DecInit /\ RegEmpty /\ PermInit /\ StoIdle /\ PipeIdle /\ BotIdle /\ IdIdle /\ BrIdle /\ TmIdle /\ AskIdle /\ LdIdle

\* the session store
InitStore == DecInit /\ RegEmpty /\ PermIdle /\ StoInit /\ PipeIdle /\ BotIdle /\ IdIdle /\ BrIdle /\ TmIdle /\ AskIdle /\ LdIdle
SpecStore == InitStore /\ [][StoNext]_vars
SpecPerm == InitPerm /\ [][PermNext]_vars

\* the registry under concurrent Send calls only
SpecSend == Init /\ [][SendNext]_vars

\* one Send on a fresh key, decoded
SpecExchange == InitRead /\ [][ExNext]_vars

\* the registry under concurrent Send and Reset calls only
SpecReset == Init /\ [][ResetNext]_vars

\* the registry started without a sessions file
SpecFresh == InitRead /\ [][RegNext]_vars

\* the registry under concurrent GetOrCreateWithSession and SetCwd calls only
InitSwitch == DecInit /\ RegLoaded /\ PermIdle /\ StoIdle /\ PipeIdle /\ BotIdle /\ IdIdle /\ BrIdle /\ TmIdle /\ AskIdle /\ LdIdle
SpecSwitch == InitSwitch /\ [][SwitchNext]_vars

\* ClaudeProcess.Send on any message
InitPipe == DecInit /\ RegEmpty /\ PermIdle /\ StoIdle /\ PipeInit /\ BotIdle /\ IdIdle /\ BrIdle /\ TmIdle /\ AskIdle /\ LdIdle
SpecPipe == InitPipe /\ [][PipeNext]_vars

\* the Bot and the updates it receives
InitBot == DecInit /\ RegEmpty /\ PermIdle /\ StoIdle /\ PipeIdle /\ BotInit /\ IdIdle /\ BrIdle /\ TmIdle /\ AskIdle /\ LdIdle
SpecBot == InitBot /\ [][BotNext]_vars

\* SessionID and SessionIDFromString, called on any arguments
InitId == DecInit /\ RegEmpty /\ PermIdle /\ StoIdle /\ PipeIdle /\ BotIdle /\ IdInit /\ BrIdle /\ TmIdle /\ AskIdle /\ LdIdle
SpecId == InitId /\ [][IdNext]_vars

\* a registry that serves a key, under lookups and closing operations
InitLock == DecInit /\ RegServing /\ PermIdle /\ StoIdle /\ PipeIdle /\ BotIdle /\ IdIdle /\ BrIdle /\ TmIdle /\ AskIdle /\ LdIdle
SpecLock == InitLock /\ [][LockNext]_vars

\* the bridge configuration, the helpers and their requests
InitBr == DecInit /\ RegEmpty /\ PermIdle /\ StoIdle /\ PipeIdle /\ BotIdle /\ IdIdle /\ BrInit /\ TmIdle /\ AskIdle /\ LdIdle
SpecBr == InitBr /\ [][BrNext]_vars

\* the registry under concurrent GetOrCreate calls only
SpecGoc == Init /\ [][GocNext]_vars

\* a permission request nobody answers, under a clock
SpecTimed == InitRead /\ [][TmNext]_vars

\* the question sets of one chat and the presses on their keyboards
SpecAsk == InitRead /\ [][AskNext]_vars

\* a store in use, its file replaced from outside, Load called on it
SpecLoad == InitStore /\ [][LoadNext]_vars

(***************************************************************************)
(* Claims about the decoder (under SpecRead).                              *)
(***************************************************************************)
CbIdx(kind) == { i \in DOMAIN cbs : cbs[i].cb = kind }
FinalIdx == { i \in CbIdx("OnMessage") : cbs[i].flag }
NonFinalIdx == { i \in CbIdx("OnMessage") : ~cbs[i].flag }
Completed(id) == Cardinality({ i \in CbIdx("OnToolResult") : cbs[i].id = id })

\* C3: within one ReadResponses call the final text callback is invoked at most
\* once and after every non-final text callback, and at most one text that was
\* read is held back undelivered at any time.
C3_FinalOnceAndLast ==
    /\ Cardinality(FinalIdx) <= 1
    /\ \A i \in FinalIdx, j \in NonFinalIdx : j < i
    /\ textsSeen - Cardinality(CbIdx("OnMessage")) \in {0, 1}

C3_Witness ==
    /\ rr = "nil"
    /\ Cardinality(FinalIdx) = 1
    /\ Cardinality(NonFinalIdx) >= 1

\* C4: the text callback of every text that came in the same line as a tool_use
\* block (in any block order) or in an earlier line fires strictly before that
\* block's OnToolUse callback, and no such text is still buffered when it fires.
C4_TextBeforeToolUse ==
    \A j \in CbIdx("OnToolUse") :
        /\ \A i \in CbIdx("OnMessage") : cbs[i].src[1] <= cbs[j].src[1] => i < j
        /\ hasMessage => lastMessage[1] > cbs[j].src[1]

C4_Witness ==
    \E j \in CbIdx("OnToolUse"), i \in CbIdx("OnMessage") :
        /\ cbs[i].src[1] = cbs[j].src[1]
        /\ cbs[j].src[2] < cbs[i].src[2]
        /\ i < j

LiveOf(k) == { p \in ProcIds : procs[p].key = k /\ Running(p) }
AliveOf(k) == { p \in ProcIds : procs[p].key = k /\ procs[p].st # "none" /\ Alive(p) }
Created == { p \in ProcIds : procs[p].st # "none" }
Reaped == { p \in ProcIds : procs[p].st = "reaped" }
Senders == { t \in Threads : th[t].op = "send" }
Callers == { t \in Threads : th[t].op = "goc" /\ th[t].pc = "done" /\ th[t].ret = "proc" }

\* C1: in every reachable state of the registry, whatever the interleaving of
\* its operations, at most one subprocess that was started and has not exited
\* exists per conversation key
C1_OneLivePerKey == \A k \in Keys : Cardinality(LiveOf(k)) <= 1

\* C2: concurrent GetOrCreate calls for one key never leave two subprocesses of
\* the key alive; a subprocess is spawned only when the key has none or the
\* previous one was reaped, so while none was reaped exactly one is spawned and
\* every caller that got a session got that one
C2_OneSpawn ==
    /\ \A k \in Keys : Cardinality(AliveOf(k)) <= 1
    /\ Cardinality(Created) <= 1 + Cardinality(Reaped)
    /\ \A t \in Callers, u \in Callers :
          th[t].proc # th[u].proc => ~Alive(th[t].proc) \/ ~Alive(th[u].proc)
    /\ \A t \in Callers : Reaped = {} => Created = {th[t].proc}

\* both callers missed the fast check and went for the exclusive lock; one
\* spawned, both returned that subprocess
C2_Witness ==
    /\ Callers = Threads
    /\ \A t \in Threads : th[t].slow
    /\ \E p \in ProcIds : Created = {p} /\ \A t \in Threads : th[t].proc = p
    /\ Cardinality({ t \in Threads : th[t].spawned # NoProc }) = 1

\* C6: a registry Send makes at most two attempts; a second attempt is made
\* only after the first one failed in the subprocess Send or in ReadResponses,
\* with the failed session out of the map and on another session; a failure of
\* that kind in the first attempt is never returned, a failure of the second is
\* returned, and nil is returned exactly after an attempt that succeeded
C6_AtMostTwoAttempts ==
    \A t \in Senders :
       LET r == th[t]
       IN  /\ r.attempts \in {1, 2}
           /\ r.attempts = 2 => r.first \in {"sendfail", "readfail"}
           /\ r.attempts = 2 /\ r.pc # "done" =>
                 /\ processes[r.key] # r.firstProc
                 /\ r.proc # r.firstProc
           /\ r.pc = "done" /\ r.ret = "nil" => r.last = "ok"
           /\ r.pc = "done" /\ r.ret = "err" =>
                 \/ r.last = "spawnfail"
                 \/ r.attempts = 2 /\ r.last \in {"sendfail", "readfail"}
           /\ r.pc = "done" => r.ret \in {"nil", "err"}

\* a Send whose first attempt failed in the write and whose second attempt
\* failed in the read returned the error
C6_Witness ==
    \E t \in Senders :
       /\ th[t].pc = "done" /\ th[t].ret = "err" /\ th[t].attempts = 2
       /\ th[t].first = "sendfail" /\ th[t].last = "readfail"

\* C7: when the first attempt of a Send fails on a session whose watcher saw
\* the session-not-found signal, the persisted mapping of the key no longer
\* holds the stale id when the retry begins
C7_StalePurgedBeforeRetry ==
    \A t \in Senders :
       th[t].attempts = 2 /\ th[t].pc = "goc" /\ th[t].staleSeen
          => persist[th[t].key] # StaleSid

(***************************************************************************)
(* Properties of the permission bridge.                                    *)
(***************************************************************************)
Answered == { r \in Reqs : rq[r].hp = "answered" }

\* C8: every tools/call for prompt_permission is answered once, with a text
\* that is a JSON object whose behavior is allow, allow-always or deny, and the
\* answer to a request that ran into an error of the bridge is a deny
C8_EveryAnswerADecision ==
    \A r \in Answered :
       LET got == Unmarshal(rq[r].text)
       IN  /\ rq[r].answers = 1
           /\ got.ok
           /\ got.resp.behavior \in Behaviors
           /\ rq[r].error # "" => got.resp.behavior = "deny"

\* C9: the handler returns one response per request, and one result at most
\* is ever written to the response channel of a pending permission: a later
\* write attempt is dropped
C9_AnsweredAtMostOnce ==
    \A r \in Reqs :
       /\ rq[r].returns <= 1
       /\ Len(rq[r].respChan) <= 1
       /\ rq[r].writes <= 1

\* C10: a request resolved by the timeout is denied with the timeout message,
\* and a button press of that request handled after the timeout writes to no
\* channel and is reported as expired
C10_LateDecisionIsNoOp ==
    /\ \A r \in Reqs :
          rq[r].resolvedBy = "timeout" =>
             rq[r].resp = Response("deny", <<"Permission request timed out">>)
    /\ \A b \in Presses :
          press[b].late =>
             /\ ~press[b].wrote
             /\ press[b].pc = "done" => press[b].reply = "Permission request expired"

\* requests whose handler waits and to whose channel nothing was written yet
Outstanding == { r \in Reqs : rq[r].sp = "wait" /\ rq[r].writes = 0 }

\* C11: while the decision of a request is outstanding the conversation's
\* pending permission is that request's: resolving, timing out or cancelling
\* another request of the conversation never removes or replaces it
C11_PendingWhileOutstanding ==
    \A r \in Outstanding : \A c \in Chats : GetPermission(c) = r

\* requests denied without a wait: no handler set, or the keyboard was not sent
DeniedAtOnce == { r \in Reqs : rq[r].resolvedBy \in {"no handler", "keyboard"} }

\* C12: a request that meets no handler (in the helper or in the supervisor),
\* or whose keyboard could not be sent, is denied with a message, without a
\* wait; it never has a pending permission, a keyboard or a channel write, and
\* the deny reaches the tool call as the handler returned it unless the HTTP
\* client gave up first
C12_DeniedAtOnce ==
    /\ \A r \in DeniedAtOnce :
          /\ rq[r].resp.behavior = "deny" /\ rq[r].resp.message # <<>>
          /\ rq[r].sp = "done" /\ rq[r].returns = 1
          /\ \A c \in Chats : GetPermission(c) # r
          /\ ~rq[r].visible /\ rq[r].writes = 0 /\ rq[r].respChan = <<>>
          /\ rq[r].error \in {"", "http failure"}
          /\ rq[r].hp = "answered" /\ rq[r].error = "" =>
                /\ Unmarshal(rq[r].text).ok
                /\ Unmarshal(rq[r].text).resp = rq[r].resp
    /\ \A r \in Reqs :
          rq[r].error = "no handler" =>
             /\ rq[r].sp = "none"
             /\ Unmarshal(rq[r].text).ok
             /\ Unmarshal(rq[r].text).resp.behavior = "deny"
             /\ Unmarshal(rq[r].text).resp.message # <<>>
    /\ ~conf.serverHandler =>
          \A r \in Reqs : rq[r].sp \in {"none", "done"} /\ (rq[r].sp = "done" => r \in DeniedAtOnce)

\* the keyboard of a request could not be sent, with an error text that has
\* quotes in it, and the tool call got the deny
C12_Witness ==
    \E r \in DeniedAtOnce :
       /\ rq[r].resolvedBy = "keyboard" /\ Q \in { rq[r].resp.message[i] : i \in DOMAIN rq[r].resp.message }
       /\ rq[r].hp = "answered" /\ rq[r].error = ""

(***************************************************************************)
(* More properties of the registry.                                        *)
(***************************************************************************)
ResetsDone == { t \in Threads : th[t].op = "reset" /\ th[t].pc = "done" }

\* C13: once a Reset of a key has returned, the key's map entry is not a
\* process that existed before, and the persisted mapping of the key is absent
\* or the id of a conversation started afterwards, whatever a Send in flight does
C13_ResetForgets ==
    \A t \in ResetsDone :
       /\ processes[th[t].key] \notin th[t].before
       /\ persist[th[t].key] \in {NoSid} \cup { FreshSid(p) : p \in ProcIds \ th[t].before }

\* C14: when a Send on a key without a mapping returns nil, its read ended on
\* a terminal event with no tool pending and at most one final text callback;
\* the store maps the key to exactly the session id the session captured, if
\* it captured one; and when the stream had one text, no tool and a result, the
\* one text callback is the final one
C14_PersistedAsCaptured ==
    th[Sender].pc = "done" /\ th[Sender].ret = "nil" =>
       /\ rr = "nil" /\ pendingTools = {}
       /\ sessionID # "" => persist[th[Sender].key] = DecodedSid(sessionID)
       /\ sessionID = "" => persist[th[Sender].key] = NoSid
       /\ Cardinality(FinalIdx) <= 1
       /\ textsSeen = 1 /\ CbIdx("OnToolUse") = {} /\ CbIdx("OnInputRequest") = {} =>
             Cardinality(FinalIdx) = 1 /\ NonFinalIdx = {}

\* the stream was init, one text, result: one callback, the final text; the
\* mapping is the id of the init event
C14_Witness ==
    /\ th[Sender].pc = "done" /\ th[Sender].ret = "nil"
    /\ nLines = 3 /\ sessionID = "s1" /\ ~slashCommands.isNil
    /\ Len(cbs) = 1 /\ FinalIdx = {1} /\ cbs[1].src[1] = 2
    /\ pendingTools = {}
    /\ persist[th[Sender].key] = DecodedSid("s1")

\* the session ids that subprocesses of key k reported in their init events
Assigned(k) == { procs[p].sessionID : p \in { q \in ProcIds : procs[q].key = k } } \ {NoSid}

\* C15: started without a sessions file, every session id mapped to a key was
\* reported by a subprocess of that key in its init event
C15_NeverFabricated == \A k \in Keys : persist[k] \in {NoSid} \cup Assigned(k)

(***************************************************************************)
(* Claims about the session store (under SpecStore).                       *)
(***************************************************************************)
\* the mappings of two stores are the same: same keys, same session id and
\* same last-active instant for each key
SameMappings(a, b) ==
    /\ Entries(a) = Entries(b)
    /\ GetAll(a) = GetAll(b)
    /\ \A c \in ChatIDs : Get(a, c) = Get(b, c)
    /\ \A c \in Entries(a) : TimeEqual(a[c].LastActive, b[c].LastActive)

\* C16: after Set calls and a Save, a fresh store that loads the file holds
\* the mappings of the first store: same keys, same session id and timestamp
C16_RoundTrip == reloaded.loaded => SameMappings(reloaded.sessions, mappings)

(***************************************************************************)
(* Claims about the errors of an exchange (under SpecSend).                *)
(***************************************************************************)
\* the callers whose ReadResponses has just returned an error because the
\* output ended without a result event
EndedEarly == { t \in Threads : th[t].pc = "evictR" /\ th[t].err \in EndErrors }

\* C17: when the output ended before a result event and the stderr watcher had
\* seen the session-not-found line, the error is the stale-session one, whether
\* or not the exit of the subprocess had been noticed
C17_StaleClassified ==
    \A t \in EndedEarly :
       th[t].staleSeen => th[t].err = "session not found, needs fresh start"

\* C18: a read that returns the cancellation of its context takes no line
\* from the stream in doing so (under SpecRead)
C18_CancelLosesNoLine ==
    [][(rr = "reading" /\ rr' = "err" /\ rrErr' = "context canceled")
          => nLines' = nLines]_vars

\* the callers whose ReadResponses on process p has not returned
Readers(p) == { t \in Threads : th[t].pc = "read" /\ th[t].proc = p }

\* C19: the exchanges of one key are sequential: at most one ReadResponses
\* reads the output of a session at a time (under SpecSend)
C19_OneReader == \A p \in ProcIds : Cardinality(Readers(p)) <= 1

(***************************************************************************)
(* Claims about GetOrCreateWithSession (under SpecSwitch).                 *)
(***************************************************************************)
\* caller t of GetOrCreateWithSession with a session id returns in this step
Switched(t) ==
    /\ th[t].op = "gocws" /\ th[t].arg # NoSid
    /\ th[t].pc \in {"kill", "killWait"} /\ th'[t].pc = "done"

\* caller t of GetOrCreateWithSession without a session id is in GetOrCreate
Unswitched(t) == th[t].op = "gocws" /\ th[t].arg = NoSid /\ th[t].pc # "idle"

\* C20: GetOrCreateWithSession with a session id that returns a process has
\* terminated the process registered for the key, returns a new subprocess
\* that resumes that id in the persisted working directory, has registered it
\* for the key and has persisted the id; when the spawn failed it has persisted
\* nothing and the key has no process; without a session id it only takes the
\* steps of GetOrCreate and leaves the mapping alone
C20_SwitchSession ==
    [][\A t \in Threads :
          /\ Switched(t) =>
                LET k == th[t].key
                    old == processes[k]
                    new == th'[t].proc
                IN  /\ old # NoProc => ~(procs'[old].st = "running")
                    /\ th'[t].ret = "proc" =>
                          /\ new # NoProc /\ procs[new].st = "none"
                          /\ procs'[new].st = "running" /\ procs'[new].key = k
                          /\ procs'[new].resume = th[t].arg
                          /\ procs'[new].cwd = cwds[k]
                          /\ processes'[k] = new
                          /\ persist'[k] = th[t].arg
                    /\ th'[t].ret # "proc" =>
                          /\ th'[t].ret = "err"
                          /\ persist' = persist
                          /\ processes'[k] = NoProc
                    /\ cwds' = cwds
          /\ Unswitched(t) =>
                /\ th[t].pc \in {"goc", "gocLock", "done"}
                /\ th'[t] # th[t] => persist' = persist /\ cwds' = cwds
      ]_vars

\* a GetOrCreateWithSession that found a process registered has returned the
\* second process, which resumes the given id in the persisted directory
C20_Witness ==
    \E t \in Threads :
       /\ th[t].op = "gocws" /\ th[t].arg # NoSid
       /\ th[t].pc = "done" /\ th[t].ret = "proc" /\ th[t].proc = 2
       /\ procs[1].st = "reaped"
       /\ procs[2].resume = th[t].arg /\ procs[2].cwd \in Dirs
       /\ processes[th[t].key] = 2 /\ persist[th[t].key] = th[t].arg

(***************************************************************************)
(* Claims about Shutdown (under SpecReg).                                  *)
(***************************************************************************)
\* caller t of Shutdown returns in this step
ShutdownReturns(t) ==
    th[t].op = "shutdown" /\ th[t].pc = "shutLoop" /\ th'[t].pc = "done"

\* C21: when Shutdown returns the registry is empty and no subprocess the
\* supervisor started is running
C21_ShutdownClosesAll ==
    [][\A t \in Threads :
          ShutdownReturns(t) =>
             /\ \A k \in Keys : processes'[k] = NoProc
             /\ \A p \in ProcIds : procs'[p].st # "running"
      ]_vars

(***************************************************************************)
(* Claims about ClaudeProcess.Send (under SpecPipe).                       *)
(***************************************************************************)
\* the first space-delimited token of a message
FirstToken(msg) ==
    IF IndexSpace(msg) = 0 THEN msg ELSE SubSeq(msg, 1, IndexSpace(msg) - 1)

\* a message in command form: it starts with "/" and its command is not the
\* skill command
CommandForm(msg) == HasPrefix(msg, <<"/">>) /\ FirstToken(msg) # <<"/", "aria">>

\* the prompt a message is to become: a command with hyphens for the
\* underscores of its first token, anything else after the skill prefix
ExpectedPrompt(msg) ==
    IF CommandForm(msg)
    THEN [i \in DOMAIN msg |->
            IF msg[i] = "_" /\ i <= Len(FirstToken(msg)) THEN "-" ELSE msg[i]]
    ELSE <<"/", "aria", " ">> \o msg

\* C22: a Send that returned nil wrote exactly one line, a user message whose
\* content is the expected prompt; a Send that failed wrote nothing
C22_OneUserLine ==
    /\ sendRet = "nil" =>
          /\ Len(stdinLines) = 1
          /\ NewLines(stdinLines[1]) = {Len(stdinLines[1])}
          /\ ContentOf(stdinLines[1]) = ExpectedPrompt(userMsg)
    /\ sendRet = "err" => stdinLines = <<>>

(***************************************************************************)
(* Claims about the Bot (under SpecBot).                                   *)
(***************************************************************************)
\* the updates for which the Bot called a handler or sent something
ActedOn == { i \in DOMAIN updates :
               updates[i].invoked # "" \/ updates[i].typing \/ updates[i].answered }

\* C23: the Bot calls a handler, and sends a chat action or a callback answer,
\* only for updates of users in the allowlist
C23_AllowlistOnly == \A i \in ActedOn : updates[i].user \in bot.allowlist

\* an update of a user outside the allowlist was dropped, and the handlers
\* were called for a message and a button press of a user in it
C23_Witness ==
    /\ \E i \in DOMAIN updates : updates[i].user \notin bot.allowlist
    /\ \E i \in ActedOn : updates[i].invoked = "handler"
    /\ \E i \in ActedOn : updates[i].invoked = "callbackHandler"

(***************************************************************************)
(* Claims about SessionID and SessionIDFromString (under SpecId).          *)
(***************************************************************************)
LowerHex == {"0", "1", "2", "3", "4", "5", "6", "7", "8", "9", "a", "b", "c", "d", "e", "f"}
Hyphens == {9, 14, 19, 24}

\* groups of 8, 4, 4, 4 and 12 lowercase hexadecimal digits with hyphens between
UUIDFormat(id) ==
    /\ Len(id) = 36
    /\ \A i \in 1 .. 36 : IF i \in Hyphens THEN id[i] = "-" ELSE id[i] \in LowerHex

ResultLines == { l \in Lines : l.type = "result" }

\* the callbacks a step of the call has added
NewCbs == SubSeq(cbs', Len(cbs) + 1, Len(cbs'))

\* the step is the scanner loop's iteration on this line
ReadsLine(line, ord) ==
    /\ rr = "reading" /\ nLines' = nLines + 1
    /\ LET d == ProcessLine(DecoderState, line, nLines + 1, ord)
       IN  /\ cbs' = d.out /\ pendingTools' = d.pendingTools
           /\ hasMessage' = d.hasMessage /\ lastMessage' = d.lastMessage
           /\ slashCommands' = d.slashCommands /\ sessionID' = d.sessionID
           /\ rr' = IF d.ret = "nil" THEN "nil" ELSE "reading"

\* C25: on a result event the call first completes every pending tool as a
\* success, then reports the permission denials if the event lists any, then
\* delivers the buffered text, if any, as final, and returns nil: the final
\* text is the last callback of the call.
C25_ResultOrder ==
    [][\A line \in ResultLines, ord \in Orders :
         ReadsLine(line, ord) =>
           LET k  == Cardinality(pendingTools)
               nd == IF Len(line.permission_denials) > 0 THEN 1 ELSE 0
               nf == IF hasMessage THEN 1 ELSE 0
           IN  /\ Len(cbs') = Len(cbs) + k + nd + nf
               /\ SubSeq(cbs', 1, Len(cbs)) = cbs
               /\ \A i \in 1..k : /\ NewCbs[i].cb = "OnToolResult"
                                  /\ ~NewCbs[i].flag
               /\ { NewCbs[i].id : i \in 1..k } = pendingTools
               /\ nd = 1 => NewCbs[k + 1] = Cb("OnPermissionDenial", "", NoSrc, FALSE,
                                                line.permission_denials)
               /\ nf = 1 => cbs'[Len(cbs')] = Cb("OnMessage", "", lastMessage, TRUE, <<>>)
               /\ rr' = "nil" /\ pendingTools' = {} ]_vars

\* a call has returned nil after a denial report followed by the final text
C25_Witness ==
    /\ rr = "nil" /\ Len(cbs) >= 2
    /\ cbs[Len(cbs)].cb = "OnMessage" /\ cbs[Len(cbs)].flag
    /\ cbs[Len(cbs) - 1].cb = "OnPermissionDenial"
    /\ cbs[Len(cbs) - 1].val = <<"Bash">>


(***************************************************************************)
(* C26: the input_request event.                                           *)
(***************************************************************************)
InputRequestLines == { l \in Lines : l.type = "input_request" }

\* C26: on an input_request event the call completes every pending tool but
\* the one the request refers to, which gets no completion callback, delivers
\* the buffered text as non-final, calls the input-request callback with that
\* tool id last, and returns nil without a final text callback.
C26_InputRequest ==
    [][\A line \in InputRequestLines, ord \in Orders :
         ReadsLine(line, ord) =>
           LET others == pendingTools \ {line.tool_use_id}
               k  == Cardinality(others)
               nf == IF hasMessage THEN 1 ELSE 0
           IN  /\ Len(cbs') = Len(cbs) + k + nf + 1
               /\ SubSeq(cbs', 1, Len(cbs)) = cbs
               /\ \A i \in 1..k : /\ NewCbs[i].cb = "OnToolResult"
                                  /\ ~NewCbs[i].flag
               /\ { NewCbs[i].id : i \in 1..k } = others
               /\ nf = 1 => NewCbs[k + 1] = Cb("OnMessage", "", lastMessage, FALSE, <<>>)
               /\ cbs'[Len(cbs')] = Cb("OnInputRequest", line.tool_use_id, NoSrc, FALSE, <<>>)
               /\ \A i \in DOMAIN cbs' : ~(cbs'[i].cb = "OnMessage" /\ cbs'[i].flag)
               /\ rr' = "nil" ]_vars


(***************************************************************************)
(* C27: a failed tool.                                                     *)
(***************************************************************************)
UserLines == { l \in Lines : l.type = "user" }

\* the error text the claim names: the block's content, else the event's tool_use_result
BestErrorText(line, blk) == IF blk.text # "" THEN blk.text ELSE line.tool_use_result

SkippedLines == { l \in Lines : l.type \in {"nonjson", "other"} }

\* C28: a line that is not valid JSON, or is JSON of an unrecognized event
\* type, triggers no callback, leaves the buffered text, the pending tools, the
\* captured session id and the command list unchanged, and does not end the call.
C28_SkippedSilently ==
    [][\A line \in SkippedLines, ord \in Orders :
         ReadsLine(line, ord) =>
           /\ cbs' = cbs
           /\ UNCHANGED <<lastMessage, hasMessage, pendingTools, sessionID, slashCommands>>
           /\ rr' = "reading" ]_vars


(***************************************************************************)
(* C29: the init capture.                                                  *)
(***************************************************************************)
\* a system/init event has been captured (every init event carries a session id)
InitCaptured == sessionID # ""

\* C29: once the session id and the command list have been captured from a
\* system/init event they never change, whatever later init events carry,
\* also when the first init event advertised no command list.
C29_CapturedOnce ==
    [][InitCaptured => UNCHANGED <<sessionID, slashCommands>>]_vars


(***************************************************************************)
(* C30: TodoWrite.                                                         *)
(***************************************************************************)
AssistantLines == { l \in Lines : l.type = "assistant" }

\* the step, reading a TodoWrite block with a todos list, calls OnTodoUpdate once
\* with an entry for each item of items, in order, and OnToolUse right after it
TodoUpdateFor(blk, items) ==
    LET upd == { j \in DOMAIN NewCbs :
                   NewCbs[j].cb = "OnTodoUpdate" /\ NewCbs[j].id = blk.id }
    IN  /\ Cardinality(upd) = 1
        /\ \A j \in upd :
             /\ Len(NewCbs[j].val) = Len(items)
             /\ \A i \in 1..Len(items) :
                  /\ NewCbs[j].val[i].Content = items[i].content
                  /\ NewCbs[j].val[i].Status = items[i].status
                  /\ NewCbs[j].val[i].ActiveForm = items[i].activeForm
             /\ j + 1 \in DOMAIN NewCbs
             /\ NewCbs[j + 1].cb = "OnToolUse" /\ NewCbs[j + 1].id = blk.id
             /\ NewCbs[j + 1].val = <<"TodoWrite">>
        /\ blk.id \in pendingTools'

WaitsOnSubprocess(t) ==
    th[t].pc \in {"killWait", "shutWait"} /\ Running(th[t].closing)

\* thread u is at a lock acquisition of GetOrCreate
AtLookup(u) == th[u].pc \in {"goc", "gocLock"}

\* C31: no registry operation holds the registry lock while it waits on a
\* subprocess, so a GetOrCreate is never kept waiting for the lock by a
\* Close whose subprocess does not exit.
C31_LookupNotBlocked ==
    \A t, u \in Threads : ~(mu = t /\ WaitsOnSubprocess(t) /\ AtLookup(u))


(***************************************************************************)
(* C32: the store's lock and the disk writes.                              *)
(***************************************************************************)
\* a Save is between its RLock and its RUnlock: its disk write is in progress
DiskWriteInProgress == \E s \in SaverIds : Saving(s)

\* C32: Get and GetAll read the in-memory map without waiting for a disk write
\* in progress, also when a mutation is queued behind that save on the lock.
C32_ReadersNeverWait == ~(rw.reader = "waiting" /\ DiskWriteInProgress)


(***************************************************************************)
(* C33: requests carry the chat of the subprocess that issued them.        *)
(***************************************************************************)
\* C33: the config of chat c names c as the chat id and the supervisor's port
\* as the callback port; GetConfigPath returns one path per chat; a request
\* that reaches the supervisor carries the chat of the helper that sent it,
\* and the pending permission of a chat comes from that chat's helper.
C33_RequestsAttributed ==
    /\ \A c \in BrChats :
         bridges[c] # NoPath =>
           /\ cfgFiles[bridges[c]].exists
           /\ ParseInt(cfgFiles[bridges[c]].chat) = [ok |-> TRUE, val |-> c]
           /\ ParseInt(cfgFiles[bridges[c]].port) = [ok |-> TRUE, val |-> callbackPort]
    /\ \A x, y \in returned : x[1] = y[1] => x[2] = y[2]
    /\ \A x, y \in returned : x[2] = y[2] => x[1] = y[1]
    /\ \A req \in received : req.ChatID = req.helper
    /\ \A c \in BrChats : pendingFrom[c] \in {NoHelper, c}

\* the helpers of both chats have had a request received, one is still pending
C33_Witness ==
    /\ { req.helper : req \in received } = BrChats
    /\ pendingFrom[-12] = -12
    /\ pendingFrom[1] = NoHelper


(***************************************************************************)
(* C34: the file after the saves.                                          *)
(***************************************************************************)
\* no Save is running or about to run, and the map has been changed
SavesCompleted ==
    /\ \A s \in SaverIds : savers[s].pc \in {"none", "done"}
    /\ \E s \in SaverIds : savers[s].pc = "done"
    /\ rw.writer = "none"

\* the records of the file are those of the in-memory map, one per chat
FileIsCurrent ==
    /\ disk.exists
    /\ Len(disk.recs) = Cardinality(Entries(mappings))
    /\ { disk.recs[i] : i \in DOMAIN disk.recs } =
         { MarshalMapping(mappings[c]) : c \in Entries(mappings) }

ResolvedByDeny(r) == rq[r].resolvedBy \in {"timeout", "cancel"}

\* C35: a button press for a request whose wait was resolved by the timeout
\* or the cancellation is never acknowledged as an allow.
C35_AckIsDecision ==
    \A b \in Presses :
        (press[b].pc = "done" /\ press[b].on # NoReq /\ ResolvedByDeny(press[b].on)) =>
            press[b].reply \notin {"Permission: allow", "Permission: allow-always"}


(***************************************************************************)
(* C36: the pending permission and the prompt.                             *)
(***************************************************************************)
\* the handler of request r has sent the prompt and has not left its select
StillWaiting(r) == rq[r].visible /\ rq[r].sp \in {"set", "wait"}

\* C36: a button press on a prompt whose request is still waiting is never
\* answered as expired: it finds the pending permission of the request.
C36_PendingBeforePrompt ==
    \A b \in Presses :
        (press[b].on # NoReq /\ StillWaiting(press[b].on)) =>
            press[b].reply # "Permission request expired"


(***************************************************************************)
(* C37: the timeout deny and the transport's own timeouts.                 *)
(***************************************************************************)
\* the handler has sent the prompt and started its wait
WaitStarted == tq.timerAt # NoTime

\* C37: when the prompt was sent and no human answers, the helper returns
\* the supervisor's timeout deny and not a transport error.
C37_TimeoutDenyReachesHelper ==
    (tq.hp = "answered" /\ WaitStarted) =>
        /\ tq.ret.err = ""
        /\ tq.ret.resp = Response("deny", <<"Permission request timed out">>)


(***************************************************************************)
(* C38: the answers collected for a question set.                          *)
(***************************************************************************)
\* the question sets with collected answers: the pending one, those sent
Collected ==
    {[Questions |-> combined[i].Questions, Answers |-> combined[i].Answers] :
        i \in 1..Len(combined)}
    \cup (IF question = NoQuestion THEN {}
          ELSE {[Questions |-> question.Questions, Answers |-> question.Answers]})

Options(q) == {q[i] : i \in 1..Len(q)}

\* C38: the collected answers never exceed the questions, the i-th answer is
\* an option of the i-th question, and no question set has its combined
\* answer sent twice, whatever buttons are pressed.
C38_AnswersMatchQuestions ==
    /\ \A c \in Collected :
          /\ Len(c.Answers) <= Len(c.Questions)
          /\ \A i \in 1..Len(c.Answers) :
                i <= Len(c.Questions) => c.Answers[i] \in Options(c.Questions[i])
    /\ \A i, j \in 1..Len(combined) :
          combined[i].ToolID = combined[j].ToolID => i = j


(***************************************************************************)
(* C39: Load and the in-memory mappings.                                   *)
(***************************************************************************)
\* the file Load found held records
Parsed(f) == f.exists /\ f \notin {Unreadable, NotYAML}
\* the chat ids of the records of a file
RecordKeys(f) == {f.recs[i].chat_id : i \in 1..Len(f.recs)}

\* C39: Load on a missing file returns nil and leaves the mappings as they
\* were; on a file it cannot read or parse it returns an error and leaves
\* them as they were; otherwise it returns nil and the mappings are records
\* of the file, one for each chat id the file has.
C39_LoadConsistent ==
    lastLoad.called =>
        LET f == lastLoad.file
        IN  /\ ~f.exists => lastLoad.ret = "nil" /\ lastLoad.after = lastLoad.before
            /\ f \in {Unreadable, NotYAML} =>
                  lastLoad.ret # "nil" /\ lastLoad.after = lastLoad.before
            /\ Parsed(f) =>
                  /\ lastLoad.ret = "nil"
                  /\ Entries(lastLoad.after) = RecordKeys(f)
                  /\ \A c \in RecordKeys(f) :
                        \E i \in 1..Len(f.recs) :
                            /\ f.recs[i].chat_id = c
                            /\ MarshalMapping(lastLoad.after[c]) = f.recs[i]

\* a store with mappings has loaded a file with two records of one chat
C39_Witness ==
    /\ lastLoad.called /\ Entries(lastLoad.before) # {}
    /\ Parsed(lastLoad.file)
    /\ Len(lastLoad.file.recs) > Cardinality(RecordKeys(lastLoad.file))
    /\ mappings = lastLoad.after /\ lastLoad.after # lastLoad.before

====
